---- MODULE Spec2Model ----
(***************************************************************************)
(* Timer / time-tracking subsystem of the Azure DevOps Code Companion      *)
(* (src/src/extension.ts): the single timer session, its persisted         *)
(* snapshot, the time-entry ledger and the sync engine.                    *)
(*                                                                         *)
(* The extension runs on one event loop.  Every synchronous handler is one *)
(* action; an async function is cut at each await into the steps between   *)
(* two awaits.  Time is the wall clock in milliseconds and advances by the *)
(* environment action Advance.                                             *)
(***************************************************************************)
EXTENDS Integers, Sequences, FiniteSets, TLC

(***************************************************************************)
(* Bounds of the model                                                     *)
(***************************************************************************)
\* events of the environment in one run: a clock step or a process death
\* counts 1, a stop command counts 2
MaxEvents == 4
CountCap == 2

(***************************************************************************)
(* Program constants                                                       *)
(***************************************************************************)
MillisPerSecond == 1000
DayCapSeconds == 86400
DayCapMillis == 24 * 60 * 60 * 1000
RestoreCapMillis == 60 * 60 * 1000
MinSaveSeconds == 60
PomodoroSeconds == 25 * 60
BreakSeconds == 5 * 60
CycleSeconds == PomodoroSeconds + BreakSeconds
ResumeDebounceMillis == 5000
\* the setting timerInactivityTimeout, in seconds (its default)
InactivityTimeout == 300
\* the values the setting is given: negative, zero, the default
TimeoutSettings == {0 - 1, 0, InactivityTimeout}
\* a setting below the debounce of the auto-resume, in seconds
ShortTimeout == 2
\* the step of the clock around the debounce: over the short timeout, under
\* the debounce
DebounceJumps == {3000}

\* Date.now() at the first activation, and the steps the clock may take:
\* half a second, 90 seconds, 25 hours.
Epoch == 1000000
Jumps == {500, 90000, 90000000}
\* the steps of the clock around the inactivity monitor: under the 5 s
\* debounce, and over the inactivity timeout
ActivityJumps == {3000, 400000}
\* the steps of the clock along a Pomodoro cycle: a break, a work period
PomodoroJumps == {BreakSeconds * 1000, PomodoroSeconds * 1000}

WorkItems == {42}
PomodoroSettings == {FALSE}

None == [absent |-> TRUE]
\* the view has got no 'timerUpdate' message from updateTimer
NoUpdate == [nothing |-> TRUE]

VARIABLES
    now,                    \* Date.now()
    up,                     \* the extension host process is running
    azureDevOpsAPI,         \* TRUE iff the API instance exists
    currentTimer,           \* TimerState | undefined
    timerStartLock,
    timerInterval,          \* the 1 s tick interval is armed
    inactivityTimer,        \* the 10 s inactivity interval is armed
    timeEntries,            \* in-memory ledger
    isSyncingTimeEntries,
    globalState,            \* context.globalState (durable)
    stops,                  \* the invocations of stopTimerCommand, in call order
    pass,                   \* the invocation of syncPendingTimeEntries that is in its loop;
                            \* skips and calls are history, not program state
    message,                \* the notification shown last
    entryHistory,           \* per ledger entry: what the remote did with it (not program state)
    ghost,                  \* history of the live session (not program state)
    counters,               \* bookkeeping for the bounds, and the time of the last
                            \* auto-resume of this run (history)
    lastActivity,           \* time of the last updateActivity()
    lastActivityResumeTime, \* time of the last auto-resume
    pomodoroBreakTimeout,   \* "undefined", "armed", or "fired" (the handle is kept)
    prompts,                \* the Pomodoro notifications waiting for an answer
    timerInactivityTimeout, \* the setting azureDevOps.timerInactivityTimeout, in seconds
    completedWork,          \* the remote work item's CompletedWork, in seconds of work
    credited,               \* the work the remote has accepted, in seconds (not program state)
    calls,                  \* per caller: the addTimeEntry call in flight
    rateLimiter,            \* the RateLimiter of the API instance; started and spaced
                            \* are history, not program state
    webviewTimer            \* the timer of the last 'timerUpdate' message posted to
                            \* the view by updateTimer

vars == <<now, up, azureDevOpsAPI, currentTimer, timerStartLock, timerInterval,
          inactivityTimer, timeEntries, isSyncingTimeEntries, globalState,
          stops, pass, message, entryHistory, ghost, counters,
          lastActivity, lastActivityResumeTime, pomodoroBreakTimeout, prompts,
          timerInactivityTimeout, completedWork, credited, calls, rateLimiter,
          webviewTimer>>

\* the remote work item and the calls to it
remoteVars == <<completedWork, credited, calls, rateLimiter>>

\* the extension's own state and the histories kept with it
localVars == <<now, up, azureDevOpsAPI, currentTimer, timerStartLock, timerInterval,
               inactivityTimer, timeEntries, isSyncingTimeEntries, globalState,
               stops, pass, message, entryHistory, ghost, counters,
               lastActivity, lastActivityResumeTime, pomodoroBreakTimeout, prompts>>

\* the inactivity monitor's and the Pomodoro break's own state
monitorVars == <<lastActivity, lastActivityResumeTime, pomodoroBreakTimeout, prompts>>

\* the answers of the remote to a request: success, a client error, the
\* rate limit, a server error; 0 stands for no answer (a network error)
Statuses == {200, 403, 429, 503, 0}
\* the step of the clock while work is tracked for the remote
WorkJumps == {90000}
\* the duration of the entry an earlier run has left in the ledger, in seconds
LeftOverSeconds == 5400
\* retryDelays of the RateLimiter
RetryDelays == <<1000, 2000, 5000>>
\* who calls addTimeEntry: 0 is the sync pass, i is the push of stop number i
Callers == {0} \cup (1..(MaxEvents \div 2))
NoCall == [stage |-> "throttle", attempt |-> 0, read |-> 0, delay |-> 0, wake |-> 0]
NoCalls == [c \in Callers |-> NoCall]
\* minInterval of the RateLimiter, in milliseconds
MinInterval == 100
\* the steps of the clock around the throttle: a fast answer of the remote,
\* the minimum interval, a minute and a half of work
ThrottleJumps == {40, MinInterval, 90000}
\* new RateLimiter(): no request yet
NewRateLimiter == [lastRequestTime |-> 0, started |-> 0, spaced |-> TRUE]
\* history: a request to the remote starts at time t
Requested(rl, t) ==
    [rl EXCEPT !.spaced = @ /\ (rl.started = 0 \/ t - rl.started >= MinInterval),
               !.started = t]

\* get('timerInactivityTimeout') || 300
EffectiveTimeout(setting) == IF setting = 0 THEN InactivityTimeout ELSE setting
\* startInactivityTimer returns without an interval when the timeout is <= 0
InactivityArmed(setting) == EffectiveTimeout(setting) > 0

Min(a, b) == IF a < b THEN a ELSE b
Max(a, b) == IF a > b THEN a ELSE b

StopIds == 1..(MaxEvents \div 2)

(***************************************************************************)
(* Pure computations of the timer                                          *)
(***************************************************************************)
\* faulty variant: the upper cap is forgotten
ClampSecondsNoCap(raw) == Max(0, raw)

\* Math.max(0, Math.min(raw, 86400))
ClampSeconds(raw) == Max(0, Min(raw, DayCapSeconds))

\* Math.floor((Date.now() - startTime) / 1000), clamped
LiveElapsed(t, startTime) == ClampSeconds((t - startTime) \div MillisPerSecond)

\* Math.min(Math.max(0, Date.now() - pausedTime), 24h)
CappedPausedDuration(t, pausedTime) == Min(Max(0, t - pausedTime), DayCapMillis)

\* the duration stopTimerCommand records
StopDuration(timer, t) ==
    IF timer.isPaused THEN timer.elapsedSeconds
    ELSE LiveElapsed(t, timer.startTime)

NewTimer(w, p, t) ==
    [workItemId |-> w, startTime |-> t, pausedTime |-> 0, elapsedSeconds |-> 0,
     isPaused |-> FALSE, isPomodoro |-> p, pomodoroCount |-> 0,
     pausedDueToInactivity |-> FALSE]

\* faulty variant: only the start lock is looked at
StartAllowedLockOnly == ~timerStartLock

\* the guards of startTimer: start lock free and no session
StartAllowed == ~timerStartLock /\ currentTimer = None

\* pauseTimerCommand on a running session
PausedTimer(timer, t) ==
    [timer EXCEPT !.elapsedSeconds = LiveElapsed(t, timer.startTime),
                  !.isPaused = TRUE,
                  !.pausedTime = t]

\* faulty variant: resume restarts the running interval at the current time
ResumedTimerFromNow(timer, t) ==
    [timer EXCEPT !.startTime = t, !.isPaused = FALSE, !.pausedTime = 0]

\* resumeTimerCommand on a paused session
ResumedTimer(timer, t) ==
    [timer EXCEPT !.startTime = IF timer.pausedTime > 0
                                THEN @ + CappedPausedDuration(t, timer.pausedTime)
                                ELSE @,
                  !.isPaused = FALSE,
                  !.pausedTime = 0]

\* faulty variant: the last notification is not looked at
PomodoroDueNoMarker(timer, lastPomodoroNotification) ==
    /\ timer.isPomodoro
    /\ timer.elapsedSeconds % CycleSeconds = PomodoroSeconds

\* lines 2350-2361: the work period of a Pomodoro session has just ended and
\* the last notification is at least a work period back
PomodoroDue(timer, lastPomodoroNotification) ==
    /\ timer.isPomodoro
    /\ timer.elapsedSeconds % CycleSeconds = PomodoroSeconds
    /\ timer.elapsedSeconds - lastPomodoroNotification >= PomodoroSeconds

\* the interval callback of startTimerInterval on a running session
TickedTimer(timer, t) ==
    [timer EXCEPT !.elapsedSeconds = LiveElapsed(t, timer.startTime)]

\* faulty variant: the 24 hour ceiling is not checked
IsValidTimerStateNoCeiling(timer) ==
    /\ timer # None
    /\ "isPaused" \in DOMAIN timer
    /\ timer.workItemId > 0
    /\ timer.startTime > 0
    /\ timer.elapsedSeconds >= 0

IsValidTimerState(timer) ==
    /\ timer # None
    /\ "isPaused" \in DOMAIN timer
    /\ timer.workItemId > 0
    /\ timer.startTime > 0
    /\ timer.elapsedSeconds >= 0
    /\ timer.elapsedSeconds <= DayCapSeconds

\* faulty variant: the tick leaves the stored snapshot as it is
SnapshotNotWritten(gs, timer) == gs

\* context.globalState.update('currentTimer', currentTimer) of the tick
Snapshot(gs, timer) == [gs EXCEPT !.currentTimer = timer]

\* faulty variant: the time since the last save is added without the 1 hour limit
RestoredElapsedUncapped(saved, lastSaveTime, t) ==
    IF lastSaveTime > 0
    THEN Min(saved.elapsedSeconds + (Max(0, t - lastSaveTime) \div MillisPerSecond),
             DayCapSeconds)
    ELSE saved.elapsedSeconds

\* elapsedSeconds after restoreTimerState of a running snapshot
RestoredElapsed(saved, lastSaveTime, t) ==
    IF lastSaveTime > 0
    THEN Min(saved.elapsedSeconds
               + (Min(Max(0, t - lastSaveTime), RestoreCapMillis) \div MillisPerSecond),
             DayCapSeconds)
    ELSE saved.elapsedSeconds

RestoredTimer(saved, lastSaveTime, t) ==
    IF saved.isPaused THEN saved
    ELSE [saved EXCEPT !.elapsedSeconds = RestoredElapsed(saved, lastSaveTime, t),
                       !.startTime = t - RestoredElapsed(saved, lastSaveTime, t) * MillisPerSecond]

(***************************************************************************)
(* The ledger                                                              *)
(***************************************************************************)
NewEntry(entries, timer, d, t) ==
    [id |-> Len(entries) + 1, workItemId |-> timer.workItemId,
     startTime |-> timer.startTime, endTime |-> t, duration |-> d,
     synced |-> FALSE, syncError |-> ""]

\* saveTimeEntries
SavedEntries(gs, entries, t) == [gs EXCEPT !.timeEntries = entries, !.lastSaveTime = t]

\* timeEntries.filter(e => !e.synced), as positions in the ledger
Indices(entries) == [k \in 1..Len(entries) |-> k]

\* faulty variant: entries that failed once are left out
PendingEntriesNeverFailed(entries) ==
    SelectSeq(Indices(entries),
              LAMBDA k : ~entries[k].synced /\ entries[k].syncError = "")

PendingEntries(entries) == SelectSeq(Indices(entries), LAMBDA k : ~entries[k].synced)

\* the outcome of syncTimeEntryToAzure written into the entry
MarkSynced(entry) == [entry EXCEPT !.synced = TRUE, !.syncError = ""]
\* faulty variant: a failed call marks the entry as not synced
MarkFailedUnsyncs(entry) == [entry EXCEPT !.synced = FALSE, !.syncError = "error"]
MarkFailed(entry) == [entry EXCEPT !.syncError = "error"]
SyncOutcome(entries, e, ok) ==
    [entries EXCEPT ![e] = IF ok THEN MarkSynced(@) ELSE MarkFailed(@)]

Bump(n) == Min(n + 1, CountCap)
\* history: the remote applied the add-time call for entry e, or refused it
Settled(hist, e, ok) ==
    IF ok THEN [hist EXCEPT ![e].applied = Bump(@)]
    ELSE [hist EXCEPT ![e].failed = TRUE]

\* history: syncTimeEntryToAzure returned ok for entry e, and the remote
\* accepted the update of the work item or did not
SettledAs(hist, e, ok, accepted) ==
    [hist EXCEPT ![e].applied = IF accepted THEN Bump(@) ELSE @,
                 ![e].failed = IF ok THEN @ ELSE TRUE]

NoGhost == [wallStart |-> 0, pausedMs |-> 0, pauseAt |-> 0, restored |-> FALSE, saved |-> 0,
            cycles |-> {}, refires |-> FALSE, pausedBy |-> "none", lost |-> 0 - 1]

NewStop == [pc |-> "new", duration |-> 0, entry |-> 0, expected |-> 0, session |-> 0]
DoneStop == [pc |-> "done", duration |-> 0, entry |-> 0, expected |-> 0, session |-> 0]
IdlePass == [pc |-> "idle", pending |-> <<>>, i |-> 0, skips |-> 0, calls |-> <<>>]

\* no "Pomodoro completed!" and no "Break over!" notification is open;
\* breakDue is the time the break timeout was set for
NoPrompts == [offer |-> FALSE, over |-> FALSE, breakDue |-> 0]

EmptyStore == [currentTimer |-> None, lastSaveTime |-> 0,
               lastPomodoroNotification |-> 0, timeEntries |-> <<>>]

Init ==
    /\ now = Epoch
    /\ up = FALSE
    /\ azureDevOpsAPI = FALSE
    /\ currentTimer = None
    /\ timerStartLock = FALSE
    /\ timerInterval = FALSE
    /\ inactivityTimer = FALSE
    /\ timeEntries = <<>>
    /\ isSyncingTimeEntries = FALSE
    /\ globalState = EmptyStore
    /\ stops = [i \in StopIds |-> NewStop]
    /\ pass = IdlePass
    /\ message = "none"
    /\ entryHistory = <<>>
    /\ ghost = NoGhost
    /\ counters = [events |-> 0, sessions |-> 0, autoResumedAt |-> 0]
    /\ lastActivity = 0
    /\ lastActivityResumeTime = 0
    /\ pomodoroBreakTimeout = "undefined"
    /\ prompts = NoPrompts
    /\ timerInactivityTimeout = InactivityTimeout
    /\ completedWork = 0
    /\ credited = 0
    /\ calls = NoCalls
    /\ rateLimiter = NewRateLimiter
    /\ webviewTimer = NoUpdate

(***************************************************************************)
(* The clock                                                               *)
(***************************************************************************)
Advance ==
    /\ UNCHANGED <<timerInactivityTimeout, remoteVars, webviewTimer>>
    /\ UNCHANGED monitorVars
    /\ counters.events < MaxEvents
    /\ \E d \in Jumps : now' = now + d
    /\ counters' = [counters EXCEPT !.events = @ + 1]
    /\ UNCHANGED <<up, azureDevOpsAPI, currentTimer, timerStartLock, timerInterval,
                   inactivityTimer, timeEntries, isSyncingTimeEntries, globalState,
                   stops, pass, message, entryHistory, ghost>>

(***************************************************************************)
(* startTimer(workItem)                                                    *)
(***************************************************************************)
StartTimerWith(p) ==
    /\ UNCHANGED <<timerInactivityTimeout, remoteVars, webviewTimer>>
    /\ UNCHANGED monitorVars
    /\ up
    /\ \E w \in WorkItems :
        IF StartAllowed
        THEN /\ currentTimer' = NewTimer(w, p, now)
             /\ globalState' = [globalState EXCEPT !.lastPomodoroNotification = 0,
                                                   !.currentTimer = NewTimer(w, p, now)]
             /\ timerInterval' = TRUE
             /\ inactivityTimer' = InactivityArmed(timerInactivityTimeout)
             /\ ghost' = [NoGhost EXCEPT !.wallStart = now]
             \* history: the ordinal of the session
             /\ counters' = [counters EXCEPT !.sessions = @ + 1]
             /\ message' = "Timer started"
        ELSE /\ message' = IF timerStartLock THEN message
                           ELSE "Timer already running. Stop it first."
             /\ UNCHANGED <<currentTimer, globalState, timerInterval, inactivityTimer,
                            ghost, counters>>
    \* the lock is taken at line 2011 and released in the finally block of the
    \* same synchronous call; a call that finds it taken leaves it taken
    /\ timerStartLock' = timerStartLock
    /\ UNCHANGED <<now, up, azureDevOpsAPI, timeEntries, isSyncingTimeEntries,
                   stops, pass, entryHistory>>

\* the setting pomodoroEnabled is read when the session is created
StartTimer == \E p \in PomodoroSettings : StartTimerWith(p)

(***************************************************************************)
(* pauseTimerCommand()                                                     *)
(***************************************************************************)
\* faulty variant: only a missing session is refused
PauseRefusedNoSessionOnly == currentTimer = None

\* !currentTimer || currentTimer.isPaused
PauseRefused == currentTimer = None \/ currentTimer.isPaused

PauseTimer ==
    /\ UNCHANGED <<timerInactivityTimeout, remoteVars>>
    /\ UNCHANGED monitorVars
    /\ up
    /\ IF PauseRefused
       THEN /\ message' = "No active timer to pause"
            /\ UNCHANGED <<currentTimer, timerInterval, globalState, ghost, webviewTimer>>
       ELSE /\ currentTimer' = PausedTimer(currentTimer, now)
            /\ webviewTimer' = PausedTimer(currentTimer, now)
            /\ timerInterval' = FALSE
            /\ globalState' = [globalState EXCEPT
                                  !.currentTimer = PausedTimer(currentTimer, now),
                                  !.lastSaveTime = now]
            /\ ghost' = [ghost EXCEPT !.pauseAt = now, !.pausedBy = "user"]
            /\ message' = "Timer paused"
    /\ UNCHANGED <<now, up, azureDevOpsAPI, timerStartLock, inactivityTimer, timeEntries,
                   isSyncingTimeEntries, stops, pass, entryHistory, counters>>

(***************************************************************************)
(* resumeTimerCommand(autoResumed = false)                                 *)
(***************************************************************************)
ResumeTimer ==
    /\ UNCHANGED <<timerInactivityTimeout, remoteVars>>
    /\ UNCHANGED monitorVars
    /\ up
    /\ IF currentTimer = None \/ ~currentTimer.isPaused
       THEN /\ message' = "No paused timer to resume"
            /\ UNCHANGED <<currentTimer, timerInterval, inactivityTimer, globalState, ghost,
                           webviewTimer>>
       ELSE /\ currentTimer' = ResumedTimer(currentTimer, now)
            /\ webviewTimer' = ResumedTimer(currentTimer, now)
            /\ globalState' = [globalState EXCEPT
                                  !.currentTimer = ResumedTimer(currentTimer, now)]
            /\ timerInterval' = TRUE
            /\ inactivityTimer' = InactivityArmed(timerInactivityTimeout)
            /\ ghost' = [ghost EXCEPT !.pausedMs = @ + (now - ghost.pauseAt),
                                      !.pauseAt = 0, !.pausedBy = "none"]
            /\ message' = "Timer resumed"
    /\ UNCHANGED <<now, up, azureDevOpsAPI, timerStartLock, timeEntries,
                   isSyncingTimeEntries, stops, pass, entryHistory, counters>>

(***************************************************************************)
(* the callback of the interval armed by startTimerInterval()              *)
(***************************************************************************)
Tick ==
    /\ UNCHANGED <<timerInactivityTimeout, remoteVars>>
    /\ up
    /\ timerInterval
    /\ currentTimer # None
    /\ ~currentTimer.isPaused
    /\ LET ticked == TickedTimer(currentTimer, now)
           due == PomodoroDue(ticked, globalState.lastPomodoroNotification)
           timer == IF due THEN [ticked EXCEPT !.pomodoroCount = @ + 1] ELSE ticked
       IN  /\ currentTimer' = timer
           /\ webviewTimer' = timer
           /\ globalState' = Snapshot([globalState EXCEPT
                                          !.lastPomodoroNotification =
                                              IF due THEN ticked.elapsedSeconds ELSE @],
                                      timer)
           /\ pomodoroBreakTimeout' = IF due THEN "undefined" ELSE pomodoroBreakTimeout
           /\ prompts' = IF due THEN [prompts EXCEPT !.offer = TRUE, !.breakDue = 0]
                         ELSE prompts
           /\ message' = IF due THEN "Pomodoro completed! Time for a 5-minute break."
                         ELSE message
           /\ ghost' = IF due
                       THEN [ghost EXCEPT !.cycles = @ \cup {ticked.elapsedSeconds \div CycleSeconds},
                                          !.refires = IF (ticked.elapsedSeconds \div CycleSeconds)
                                                           \in ghost.cycles
                                                      THEN TRUE ELSE @]
                       ELSE ghost
    /\ UNCHANGED <<now, up, azureDevOpsAPI, timerStartLock, timerInterval, inactivityTimer,
                   timeEntries, isSyncingTimeEntries, stops, pass, entryHistory,
                   counters, lastActivity, lastActivityResumeTime>>

(***************************************************************************)
(* syncPendingTimeEntries(): the synchronous part up to its first await    *)
(***************************************************************************)
\* faulty variant: the single-flight flag is not looked at
SyncSkippedNoFlag(entries) ==
    \/ ~azureDevOpsAPI
    \/ Len(PendingEntries(entries)) = 0

\* the three early returns of syncPendingTimeEntries
SyncSkipped(entries) ==
    \/ ~azureDevOpsAPI
    \/ isSyncingTimeEntries
    \/ Len(PendingEntries(entries)) = 0

\* faulty variant: the loop ends after an entry whose call failed
NextUnsyncedUntilFailure(entries, pending, from) ==
    IF from > 1 /\ entries[pending[from - 1]].syncError # ""
    THEN Len(pending) + 1
    ELSE LET S == {j \in from..Len(pending) : ~entries[pending[j]].synced}
         IN  IF S = {} THEN Len(pending) + 1
             ELSE CHOOSE j \in S : \A k \in S : j <= k

\* the first position at or after `from` whose entry is still unsynced
NextUnsynced(entries, pending, from) ==
    LET S == {j \in from..Len(pending) : ~entries[pending[j]].synced}
    IN  IF S = {} THEN Len(pending) + 1
        ELSE CHOOSE j \in S : \A k \in S : j <= k

\* what a call of syncPendingTimeEntries leaves behind when it reaches its
\* first await (or returns): the loop position and the flag
PassBegin(entries) ==
    IF SyncSkipped(entries)
    THEN [pass |-> IF isSyncingTimeEntries THEN [pass EXCEPT !.skips = 1] ELSE pass,
          syncing |-> isSyncingTimeEntries]
    ELSE [pass |-> [pc |-> "call", pending |-> PendingEntries(entries), i |-> 1, skips |-> 0,
                    calls |-> [k \in 1..Len(PendingEntries(entries)) |->
                                 IF k = 1 THEN 1 ELSE 0]],
          syncing |-> TRUE]

(***************************************************************************)
(* stopTimerCommand()                                                      *)
(***************************************************************************)
\* what the session's duration should be: wall clock since start minus the
\* time spent paused (history, independent of startTime)
ExpectedDuration(g, paused, t) ==
    ClampSeconds((t - g.wallStart - (g.pausedMs + (IF paused THEN t - g.pauseAt ELSE 0)))
                   \div MillisPerSecond)

\* timeEntries.filter(e => !e.synced && e.id !== timeEntry.id)
OtherPending(entries, e) ==
    {k \in 1..Len(entries) : ~entries[k].synced /\ entries[k].id # e}

\* faulty variant: the persisted snapshot is not removed
StopFinishKeepsSnapshot(i, e, entries, gs, hist, msg) ==
    LET b == IF OtherPending(entries, e) # {}
             THEN PassBegin(entries)
             ELSE [pass |-> pass, syncing |-> isSyncingTimeEntries]
    IN  /\ currentTimer' = None
        /\ timerInterval' = FALSE
        /\ inactivityTimer' = FALSE
        /\ globalState' = gs
        /\ timeEntries' = entries
        /\ stops' = [stops EXCEPT ![i] = DoneStop]
        /\ pass' = b.pass
        /\ isSyncingTimeEntries' = b.syncing
        /\ entryHistory' = hist
        /\ ghost' = NoGhost
        /\ message' = msg

\* lines 2175-2192: clearTimerState(), then the sync of the other entries
StopFinish(i, e, entries, gs, hist, msg) ==
    LET b == IF OtherPending(entries, e) # {}
             THEN PassBegin(entries)
             ELSE [pass |-> pass, syncing |-> isSyncingTimeEntries]
    IN  /\ currentTimer' = None
        /\ timerInterval' = FALSE
        /\ inactivityTimer' = FALSE
        /\ globalState' = [gs EXCEPT !.currentTimer = None]
        /\ timeEntries' = entries
        /\ stops' = [stops EXCEPT ![i] = DoneStop]
        /\ pass' = b.pass
        /\ isSyncingTimeEntries' = b.syncing
        /\ entryHistory' = hist
        /\ ghost' = NoGhost
        /\ message' = msg

\* lines 2145-2176: build the entry, push it on the ledger, save, then either
\* ask "Update work item?" or finish
StopAppend(i, d, exp) ==
    LET entries == Append(timeEntries, NewEntry(timeEntries, currentTimer, d, now))
        gs == SavedEntries(globalState, entries, now)
        hist == Append(entryHistory,
                       [expected |-> exp, restored |-> ghost.restored,
                        applied |-> 0, failed |-> FALSE])
    IN  IF azureDevOpsAPI
        THEN /\ timeEntries' = entries
             /\ globalState' = gs
             /\ entryHistory' = hist
             /\ stops' = [stops EXCEPT ![i] = [pc |-> "update", duration |-> d,
                                               entry |-> Len(entries), expected |-> exp,
                                               session |-> counters.sessions]]
             /\ ghost' = [ghost EXCEPT !.saved = Bump(@)]
             /\ message' = "Timer stopped. Update work item?"
             /\ UNCHANGED <<currentTimer, timerInterval, inactivityTimer, pass,
                            isSyncingTimeEntries>>
        ELSE StopFinish(i, Len(entries), entries, gs, hist, message)

StopInvoke(i) ==
    /\ UNCHANGED <<timerInactivityTimeout, remoteVars, webviewTimer>>
    /\ UNCHANGED monitorVars
    /\ up
    /\ stops[i].pc = "new"
    /\ \A j \in StopIds : j < i => stops[j].pc # "new"
    /\ counters.events + 2 <= MaxEvents
    /\ counters' = [counters EXCEPT !.events = @ + 2]
    /\ IF currentTimer = None
       THEN /\ message' = "No timer running"
            /\ stops' = [stops EXCEPT ![i] = DoneStop]
            /\ UNCHANGED <<currentTimer, timerInterval, inactivityTimer, timeEntries,
                           globalState, pass, isSyncingTimeEntries, entryHistory, ghost>>
       ELSE IF StopDuration(currentTimer, now) < MinSaveSeconds
       THEN /\ stops' = [stops EXCEPT ![i] =
                           [pc |-> "confirm", duration |-> StopDuration(currentTimer, now),
                            entry |-> 0,
                            expected |-> ExpectedDuration(ghost, currentTimer.isPaused, now),
                            session |-> counters.sessions]]
            /\ message' = "Timer duration is less than 1 minute. Save anyway?"
            /\ UNCHANGED <<currentTimer, timerInterval, inactivityTimer, timeEntries,
                           globalState, pass, isSyncingTimeEntries, entryHistory, ghost>>
       ELSE StopAppend(i, StopDuration(currentTimer, now),
                       ExpectedDuration(ghost, currentTimer.isPaused, now))
    /\ UNCHANGED <<now, up, azureDevOpsAPI, timerStartLock>>

\* the answer to "Save anyway?"
StopConfirm(i, answer) ==
    /\ UNCHANGED <<timerInactivityTimeout, remoteVars, webviewTimer>>
    /\ UNCHANGED monitorVars
    /\ up
    /\ stops[i].pc = "confirm"
    /\  IF answer # "Save"
        THEN \* clearTimerState(); return
             /\ currentTimer' = None
             /\ timerInterval' = FALSE
             /\ inactivityTimer' = FALSE
             /\ globalState' = [globalState EXCEPT !.currentTimer = None]
             /\ stops' = [stops EXCEPT ![i] = DoneStop]
             /\ ghost' = NoGhost
             /\ UNCHANGED <<timeEntries, pass, isSyncingTimeEntries, entryHistory, message>>
        ELSE IF currentTimer = None
        THEN \* currentTimer.workItemId on undefined: TypeError, the command rejects
             /\ stops' = [stops EXCEPT ![i] = DoneStop]
             /\ message' = "TypeError"
             /\ UNCHANGED <<currentTimer, timerInterval, inactivityTimer, timeEntries,
                            globalState, pass, isSyncingTimeEntries, entryHistory, ghost>>
        ELSE StopAppend(i, stops[i].duration, stops[i].expected)
    /\ UNCHANGED <<now, up, azureDevOpsAPI, timerStartLock, counters>>

\* the answer to "Update work item?"
StopUpdate(i, answer) ==
    /\ UNCHANGED <<timerInactivityTimeout, remoteVars, webviewTimer>>
    /\ UNCHANGED monitorVars
    /\ up
    /\ stops[i].pc = "update"
    /\  IF answer = "Yes" /\ azureDevOpsAPI
        THEN \* syncTimeEntryToAzure: addTimeEntry is in flight
             /\ stops' = [stops EXCEPT ![i].pc = "push"]
             /\ UNCHANGED <<currentTimer, timerInterval, inactivityTimer, timeEntries,
                            globalState, pass, isSyncingTimeEntries, entryHistory, ghost,
                            message>>
        ELSE StopFinish(i, stops[i].entry, timeEntries, globalState, entryHistory, message)
    /\ UNCHANGED <<now, up, azureDevOpsAPI, timerStartLock, counters>>

\* syncTimeEntryToAzure of the push returns ok, with hist as the history of
\* the entries; the rest of stopTimerCommand runs
PushSettles(i, ok, hist) ==
    /\ UNCHANGED monitorVars
    /\ up
    /\ stops[i].pc = "push"
    /\  LET e == stops[i].entry
            entries == SyncOutcome(timeEntries, e, ok)
        IN  StopFinish(i, e, entries, SavedEntries(globalState, entries, now), hist,
                       IF ok THEN "Time entry added to work item"
                       ELSE "Failed to sync time entry")
    /\ UNCHANGED <<now, up, azureDevOpsAPI, timerStartLock, counters>>

\* addTimeEntry of the push settles as a whole: it resolves after the remote
\* has applied the hours, or it rejects
StopPushDone(i, ok) ==
    /\ UNCHANGED <<timerInactivityTimeout, remoteVars, webviewTimer>>
    /\ PushSettles(i, ok, Settled(entryHistory, stops[i].entry, ok))

(***************************************************************************)
(* syncPendingTimeEntries(): triggers and loop                             *)
(***************************************************************************)
\* the 5 s startup timeout or the 5 min interval of activate() fires
SyncTrigger ==
    /\ UNCHANGED <<timerInactivityTimeout, remoteVars, webviewTimer>>
    /\ UNCHANGED monitorVars
    /\ up
    /\ pass' = PassBegin(timeEntries).pass
    /\ isSyncingTimeEntries' = PassBegin(timeEntries).syncing
    /\ UNCHANGED <<now, up, azureDevOpsAPI, currentTimer, timerStartLock, timerInterval,
                   inactivityTimer, timeEntries, globalState, stops, message, entryHistory,
                   ghost, counters>>

\* syncTimeEntryToAzure of the loop's current entry returns ok, with hist as
\* the history of the entries; the loop goes to sleep 500 ms
PassSettles(ok, hist) ==
    /\ UNCHANGED monitorVars
    /\ up
    /\ pass.pc = "call"
    /\  LET e == pass.pending[pass.i]
            entries == SyncOutcome(timeEntries, e, ok)
        IN  /\ timeEntries' = entries
            /\ globalState' = SavedEntries(globalState, entries, now)
            /\ entryHistory' = hist
            /\ message' = IF ok THEN "Time entry added to work item"
                          ELSE "Failed to sync time entry"
    /\ pass' = [pass EXCEPT !.pc = "sleep"]
    /\ UNCHANGED <<now, up, azureDevOpsAPI, currentTimer, timerStartLock, timerInterval,
                   inactivityTimer, isSyncingTimeEntries, stops, ghost, counters>>

\* addTimeEntry of the loop's current entry settles as a whole
PassResponse(ok) ==
    /\ UNCHANGED <<timerInactivityTimeout, remoteVars, webviewTimer>>
    /\ PassSettles(ok, Settled(entryHistory, pass.pending[pass.i], ok))

\* faulty variant: the pass ends without clearing the flag
PassFinallyKeepsFlag == [pass |-> IdlePass, syncing |-> isSyncingTimeEntries]

\* finally { isSyncingTimeEntries = false }
PassFinally == [pass |-> IdlePass, syncing |-> FALSE]

\* the 500 ms sleep ends: next unsynced entry, or the finally block
PassWake ==
    /\ UNCHANGED <<timerInactivityTimeout, remoteVars, webviewTimer>>
    /\ UNCHANGED monitorVars
    /\ up
    /\ pass.pc = "sleep"
    /\ LET j == NextUnsynced(timeEntries, pass.pending, pass.i + 1)
       IN  IF j > Len(pass.pending)
           THEN /\ pass' = PassFinally.pass
                /\ isSyncingTimeEntries' = PassFinally.syncing
           ELSE /\ pass' = [pass EXCEPT !.pc = "call", !.i = j, !.calls[j] = Bump(@)]
                /\ UNCHANGED isSyncingTimeEntries
    /\ UNCHANGED <<now, up, azureDevOpsAPI, currentTimer, timerStartLock, timerInterval,
                   inactivityTimer, timeEntries, globalState, stops, message, entryHistory,
                   ghost, counters>>

(***************************************************************************)
(* AzureDevOpsAPI.addTimeEntry(), request by request                       *)
(***************************************************************************)
\* axios rejects on a network error and on a status that validateStatus
\* refuses (500 and above); every other answer resolves
AxiosThrows(status) == status = 0 \/ status >= 500

\* withRetry after fn threw on attempt number `attempt` (from 0): client
\* errors other than 429 and the last attempt rethrow, the rest retries
RetryAfter(status, attempt) ==
    /\ ~(status # 0 /\ status >= 400 /\ status < 500 /\ status # 429)
    /\ attempt < Len(RetryDelays)

\* caller c is inside its call of syncTimeEntryToAzure
Active(c) == up /\ IF c = 0 THEN pass.pc = "call" ELSE stops[c].pc = "push"
\* the ledger entry the call of c is for
EntryOf(c) == IF c = 0 THEN pass.pending[pass.i] ELSE stops[c].entry

\* the hours handed to addTimeEntry, in seconds of work: the pass passes
\* duration / 3600, the push passes parseFloat((duration / 3600).toFixed(2)),
\* a whole number of hundredths of an hour (36 s)
HoursOf(c) ==
    IF c = 0 THEN timeEntries[EntryOf(c)].duration
    ELSE 36 * ((stops[c].duration + 18) \div 36)

\* syncTimeEntryToAzure of caller c returns ok
Settles(c, ok, accepted) ==
    /\ calls' = [calls EXCEPT ![c] = NoCall]
    /\ IF c = 0
       THEN PassSettles(ok, SettledAs(entryHistory, EntryOf(c), ok, accepted))
       ELSE PushSettles(c, ok, SettledAs(entryHistory, EntryOf(c), ok, accepted))

\* withRetry, attempt 0: throttle() up to its await.  A call less than
\* minInterval after lastRequestTime waits for the rest of the interval;
\* any other call sets lastRequestTime and sends the GET of the work item
ThrottleBegins(c) ==
    /\ Active(c)
    /\ calls[c].stage = "throttle"
    /\ LET timeSinceLastRequest == now - rateLimiter.lastRequestTime
       IN  IF timeSinceLastRequest < MinInterval
           THEN /\ calls' = [calls EXCEPT ![c].stage = "wait",
                                          ![c].wake = now + (MinInterval - timeSinceLastRequest)]
                /\ UNCHANGED rateLimiter
           ELSE /\ calls' = [calls EXCEPT ![c].stage = "get"]
                /\ rateLimiter' = Requested([rateLimiter EXCEPT !.lastRequestTime = now], now)
    /\ UNCHANGED <<localVars, timerInactivityTimeout, completedWork, credited, webviewTimer>>

\* the timeout of throttle() has fired: lastRequestTime = Date.now(), and
\* the GET of the work item is sent
ThrottleEnds(c) ==
    /\ Active(c)
    /\ calls[c].stage = "wait"
    /\ now >= calls[c].wake
    /\ calls' = [calls EXCEPT ![c].stage = "get"]
    /\ rateLimiter' = Requested([rateLimiter EXCEPT !.lastRequestTime = now], now)
    /\ UNCHANGED <<localVars, timerInactivityTimeout, completedWork, credited, webviewTimer>>

\* getWorkItemById: the GET of the work item is answered; after a 200 the
\* POST of the comment is sent
GetResponds(c, status) ==
    /\ Active(c)
    /\ calls[c].stage = "get"
    /\ IF AxiosThrows(status)
       THEN IF RetryAfter(status, calls[c].attempt)
            THEN \* setTimeout(resolve, retryDelays[attempt])
                 /\ calls' = [calls EXCEPT ![c].stage = "backoff",
                                           ![c].delay = RetryDelays[calls[c].attempt + 1],
                                           ![c].wake = now + RetryDelays[calls[c].attempt + 1]]
                 /\ UNCHANGED <<localVars, rateLimiter>>
            ELSE \* withRetry throws, getWorkItemById returns null, addTimeEntry throws
                 /\ Settles(c, FALSE, FALSE)
                 /\ UNCHANGED rateLimiter
       ELSE IF status = 200
            THEN /\ calls' = [calls EXCEPT ![c].stage = "comment", ![c].read = completedWork]
                 /\ rateLimiter' = Requested(rateLimiter, now)
                 /\ UNCHANGED localVars
            ELSE \* the answer has no fields: addTimeEntry throws
                 /\ Settles(c, FALSE, FALSE)
                 /\ UNCHANGED rateLimiter
    /\ UNCHANGED <<timerInactivityTimeout, completedWork, credited, webviewTimer>>

\* the backoff delay of withRetry is over: the next attempt sends the GET
\* again, without throttle()
BackoffEnds(c) ==
    /\ Active(c)
    /\ calls[c].stage = "backoff"
    /\ now >= calls[c].wake
    /\ calls' = [calls EXCEPT ![c].stage = "get", ![c].attempt = @ + 1]
    /\ rateLimiter' = Requested(rateLimiter, now)
    /\ UNCHANGED <<localVars, timerInactivityTimeout, completedWork, credited, webviewTimer>>

\* addWorkItemComment: the POST of the comment is answered; unless axios
\* throws, the PATCH of updateWorkItem is sent
CommentResponds(c, status) ==
    /\ Active(c)
    /\ calls[c].stage = "comment"
    /\ IF AxiosThrows(status)
       THEN /\ Settles(c, FALSE, FALSE)
            /\ UNCHANGED rateLimiter
       ELSE /\ calls' = [calls EXCEPT ![c].stage = "patch"]
            /\ rateLimiter' = Requested(rateLimiter, now)
            /\ UNCHANGED localVars
    /\ UNCHANGED <<timerInactivityTimeout, completedWork, credited, webviewTimer>>

\* updateWorkItem: the PATCH with CompletedWork = read + hours is answered;
\* the remote applies it when it answers 200
PatchResponds(c, status) ==
    /\ Active(c)
    /\ calls[c].stage = "patch"
    /\ IF AxiosThrows(status)
       THEN /\ Settles(c, FALSE, FALSE)
            /\ UNCHANGED <<completedWork, credited>>
       ELSE /\ completedWork' = IF status = 200 THEN calls[c].read + HoursOf(c)
                                ELSE completedWork
            /\ credited' = IF status = 200 THEN credited + HoursOf(c) ELSE credited
            /\ Settles(c, TRUE, status = 200)
    /\ UNCHANGED <<timerInactivityTimeout, rateLimiter, webviewTimer>>

\* the clock goes on by a minute and a half of work
AdvanceWork ==
    /\ counters.events < MaxEvents
    /\ \E d \in WorkJumps : now' = now + d
    /\ counters' = [counters EXCEPT !.events = @ + 1]
    /\ UNCHANGED <<up, azureDevOpsAPI, currentTimer, timerStartLock, timerInterval,
                   inactivityTimer, timeEntries, isSyncingTimeEntries, globalState,
                   stops, pass, message, entryHistory, ghost, monitorVars,
                   timerInactivityTimeout, remoteVars, webviewTimer>>

\* the clock goes on around the throttle
AdvanceThrottle ==
    /\ counters.events < MaxEvents
    /\ \E d \in ThrottleJumps : now' = now + d
    /\ counters' = [counters EXCEPT !.events = @ + 1]
    /\ UNCHANGED <<up, azureDevOpsAPI, currentTimer, timerStartLock, timerInterval,
                   inactivityTimer, timeEntries, isSyncingTimeEntries, globalState,
                   stops, pass, message, entryHistory, ghost, monitorVars,
                   timerInactivityTimeout, remoteVars, webviewTimer>>

\* an earlier run of the extension has left an unsynced entry of 1.5 hours
\* in the persisted ledger
EarlierRun ==
    /\ ~up
    /\ counters.events = 0
    /\ globalState.timeEntries = <<>>
    /\ entryHistory = <<>>
    /\ LET d == LeftOverSeconds
           entry == [id |-> 1, workItemId |-> 42, startTime |-> now - (d + 60) * MillisPerSecond,
                     endTime |-> now - 60 * MillisPerSecond, duration |-> d,
                     synced |-> FALSE, syncError |-> ""]
       IN  /\ globalState' = SavedEntries(globalState, <<entry>>, now - 60 * MillisPerSecond)
           /\ entryHistory' = <<[expected |-> d, restored |-> FALSE, applied |-> 0,
                                 failed |-> FALSE]>>
    /\ UNCHANGED <<now, up, azureDevOpsAPI, currentTimer, timerStartLock, timerInterval,
                   inactivityTimer, timeEntries, isSyncingTimeEntries, stops, pass,
                   message, ghost, counters, monitorVars, timerInactivityTimeout, remoteVars, webviewTimer>>

(***************************************************************************)
(* The inactivity monitor                                                  *)
(***************************************************************************)
\* faulty variant: the check pauses without marking the pause as its own
InactivityCheckNoFlag ==
    /\ UNCHANGED <<timerInactivityTimeout, remoteVars>>
    /\ up
    /\ inactivityTimer
    /\ currentTimer # None
    /\ ~currentTimer.isPaused
    /\ now - lastActivity >= EffectiveTimeout(timerInactivityTimeout) * MillisPerSecond
    /\ currentTimer' = PausedTimer(currentTimer, now)
    /\ webviewTimer' = PausedTimer(currentTimer, now)
    /\ globalState' = [globalState EXCEPT !.currentTimer = PausedTimer(currentTimer, now),
                                          !.lastSaveTime = now]
    /\ timerInterval' = FALSE
    /\ ghost' = [ghost EXCEPT !.pauseAt = now, !.pausedBy = "inactivity"]
    /\ message' = "Timer paused after inactivity"
    /\ UNCHANGED <<now, up, azureDevOpsAPI, timerStartLock, inactivityTimer, timeEntries,
                   isSyncingTimeEntries, stops, pass, entryHistory, counters, monitorVars>>

\* the callback of the interval armed by startInactivityTimer()
InactivityCheck ==
    /\ UNCHANGED <<timerInactivityTimeout, remoteVars>>
    /\ up
    /\ inactivityTimer
    /\ currentTimer # None
    /\ ~currentTimer.isPaused
    /\ now - lastActivity >= EffectiveTimeout(timerInactivityTimeout) * MillisPerSecond
    /\ LET paused == PausedTimer([currentTimer EXCEPT !.pausedDueToInactivity = TRUE], now)
       IN  /\ currentTimer' = paused
           /\ webviewTimer' = paused
           /\ globalState' = [globalState EXCEPT !.currentTimer = paused,
                                                 !.lastSaveTime = now]
    /\ timerInterval' = FALSE
    /\ ghost' = [ghost EXCEPT !.pauseAt = now, !.pausedBy = "inactivity"]
    /\ message' = "Timer paused after inactivity"
    /\ UNCHANGED <<now, up, azureDevOpsAPI, timerStartLock, inactivityTimer, timeEntries,
                   isSyncingTimeEntries, stops, pass, entryHistory, counters, monitorVars>>

\* updateActivity(), with the setting autoResumeOnActivity as it is read
\* faulty variant: no debounce
NeverDebounced(t, last) == FALSE

\* now - lastActivityResumeTime < 5000
Debounced(t, last) == t - last < ResumeDebounceMillis

UpdateActivity(autoResume) ==
    /\ UNCHANGED <<timerInactivityTimeout, remoteVars>>
    /\ up
    /\ lastActivity' = now
    /\ IF /\ currentTimer # None
          /\ currentTimer.isPaused
          /\ currentTimer.pausedDueToInactivity
          /\ ~Debounced(now, lastActivityResumeTime)
          /\ autoResume
       THEN LET resumed == ResumedTimer([currentTimer EXCEPT
                                            !.pausedDueToInactivity = FALSE], now)
            IN  /\ lastActivityResumeTime' = now
                /\ currentTimer' = resumed
                /\ webviewTimer' = resumed
                /\ globalState' = [globalState EXCEPT !.currentTimer = resumed]
                /\ timerInterval' = TRUE
                /\ inactivityTimer' = InactivityArmed(timerInactivityTimeout)
                /\ ghost' = [ghost EXCEPT !.pausedMs = @ + (now - ghost.pauseAt),
                                          !.pauseAt = 0, !.pausedBy = "none"]
                /\ message' = "Timer resumed due to activity"
                /\ counters' = [counters EXCEPT !.autoResumedAt = now]
       ELSE UNCHANGED <<lastActivityResumeTime, currentTimer, globalState, timerInterval,
                        inactivityTimer, ghost, message, counters, webviewTimer>>
    /\ UNCHANGED <<now, up, azureDevOpsAPI, timerStartLock, timeEntries,
                   isSyncingTimeEntries, stops, pass, entryHistory,
                   pomodoroBreakTimeout, prompts>>

\* the user changes the setting timerInactivityTimeout; the monitor reads
\* it when it is armed, so it is changed here between sessions
ChangeInactivityTimeout ==
    /\ currentTimer = None
    /\ \E v \in TimeoutSettings \ {timerInactivityTimeout} : timerInactivityTimeout' = v
    /\ UNCHANGED <<now, up, azureDevOpsAPI, currentTimer, timerStartLock, timerInterval,
                   inactivityTimer, timeEntries, isSyncingTimeEntries, globalState,
                   stops, pass, message, entryHistory, ghost, counters, monitorVars,
                   remoteVars, webviewTimer>>

\* the clock around the inactivity monitor
\* the user sets azureDevOps.timerInactivityTimeout to a few seconds
ShortenInactivityTimeout ==
    /\ currentTimer = None
    /\ timerInactivityTimeout # ShortTimeout
    /\ timerInactivityTimeout' = ShortTimeout
    /\ UNCHANGED <<now, up, azureDevOpsAPI, currentTimer, timerStartLock, timerInterval,
                   inactivityTimer, timeEntries, isSyncingTimeEntries, globalState,
                   stops, pass, message, entryHistory, ghost, counters, monitorVars,
                   remoteVars, webviewTimer>>

\* the clock goes on by less than the debounce
AdvanceDebounce ==
    /\ counters.events < MaxEvents
    /\ \E d \in DebounceJumps : now' = now + d
    /\ counters' = [counters EXCEPT !.events = @ + 1]
    /\ UNCHANGED <<up, azureDevOpsAPI, currentTimer, timerStartLock, timerInterval,
                   inactivityTimer, timeEntries, isSyncingTimeEntries, globalState,
                   stops, pass, message, entryHistory, ghost, monitorVars,
                   timerInactivityTimeout, remoteVars, webviewTimer>>

AdvanceActivity ==
    /\ UNCHANGED <<timerInactivityTimeout, remoteVars, webviewTimer>>
    /\ counters.events < MaxEvents
    /\ \E d \in ActivityJumps : now' = now + d
    /\ counters' = [counters EXCEPT !.events = @ + 1]
    /\ UNCHANGED <<up, azureDevOpsAPI, currentTimer, timerStartLock, timerInterval,
                   inactivityTimer, timeEntries, isSyncingTimeEntries, globalState,
                   stops, pass, message, entryHistory, ghost, monitorVars>>

(***************************************************************************)
(* The Pomodoro break                                                      *)
(***************************************************************************)
\* the answer to "Pomodoro completed! Time for a 5-minute break."
BreakOffer(selection) ==
    /\ UNCHANGED <<timerInactivityTimeout, remoteVars>>
    /\ up
    /\ prompts.offer
    /\ IF selection = "Start Break"
       THEN \* setTimeout(..., breakSeconds * 1000)
            /\ pomodoroBreakTimeout' = "armed"
            /\ prompts' = [prompts EXCEPT !.offer = FALSE,
                                          !.breakDue = now + BreakSeconds * MillisPerSecond]
            /\ IF currentTimer = None \/ currentTimer.isPaused
               THEN /\ message' = "No active timer to pause"
                    /\ UNCHANGED <<currentTimer, timerInterval, globalState, ghost,
                                   webviewTimer>>
               ELSE /\ currentTimer' = PausedTimer(currentTimer, now)
                    /\ webviewTimer' = PausedTimer(currentTimer, now)
                    /\ timerInterval' = FALSE
                    /\ globalState' = [globalState EXCEPT
                                          !.currentTimer = PausedTimer(currentTimer, now),
                                          !.lastSaveTime = now]
                    /\ ghost' = [ghost EXCEPT !.pauseAt = now, !.pausedBy = "break"]
                    /\ message' = "Timer paused"
       ELSE /\ prompts' = [prompts EXCEPT !.offer = FALSE]
            /\ UNCHANGED <<pomodoroBreakTimeout, currentTimer, timerInterval, globalState,
                           ghost, message, webviewTimer>>
    /\ UNCHANGED <<now, up, azureDevOpsAPI, timerStartLock, inactivityTimer, timeEntries,
                   isSyncingTimeEntries, stops, pass, entryHistory, counters,
                   lastActivity, lastActivityResumeTime>>

\* the break timeout fires: "Break over! Ready to continue?"
BreakTimeout ==
    /\ UNCHANGED <<timerInactivityTimeout, remoteVars, webviewTimer>>
    /\ up
    /\ pomodoroBreakTimeout = "armed"
    /\ now >= prompts.breakDue
    /\ pomodoroBreakTimeout' = "fired"
    /\ prompts' = [prompts EXCEPT !.over = TRUE]
    /\ message' = "Break over! Ready to continue?"
    /\ UNCHANGED <<now, up, azureDevOpsAPI, currentTimer, timerStartLock, timerInterval,
                   inactivityTimer, timeEntries, isSyncingTimeEntries, globalState, stops,
                   pass, entryHistory, ghost, counters, lastActivity,
                   lastActivityResumeTime>>

\* the answer to "Break over! Ready to continue?"
BreakOver(answer) ==
    /\ UNCHANGED <<timerInactivityTimeout, remoteVars>>
    /\ up
    /\ prompts.over
    /\ prompts' = [prompts EXCEPT !.over = FALSE]
    /\ IF answer # "Resume"
       THEN UNCHANGED <<currentTimer, timerInterval, inactivityTimer, globalState, ghost,
                        message, webviewTimer>>
       ELSE IF currentTimer = None \/ ~currentTimer.isPaused
       THEN /\ message' = "No paused timer to resume"
            /\ UNCHANGED <<currentTimer, timerInterval, inactivityTimer, globalState, ghost,
                           webviewTimer>>
       ELSE /\ currentTimer' = ResumedTimer(currentTimer, now)
            /\ webviewTimer' = ResumedTimer(currentTimer, now)
            /\ globalState' = [globalState EXCEPT
                                  !.currentTimer = ResumedTimer(currentTimer, now)]
            /\ timerInterval' = TRUE
            /\ inactivityTimer' = InactivityArmed(timerInactivityTimeout)
            /\ ghost' = [ghost EXCEPT !.pausedMs = @ + (now - ghost.pauseAt),
                                      !.pauseAt = 0, !.pausedBy = "none"]
            /\ message' = "Timer resumed"
    /\ UNCHANGED <<now, up, azureDevOpsAPI, timerStartLock, timeEntries,
                   isSyncingTimeEntries, stops, pass, entryHistory, counters,
                   lastActivity, lastActivityResumeTime, pomodoroBreakTimeout>>

\* the clock along a Pomodoro cycle
AdvanceCycle ==
    /\ UNCHANGED <<timerInactivityTimeout, remoteVars, webviewTimer>>
    /\ counters.events < MaxEvents
    /\ \E d \in PomodoroJumps : now' = now + d
    /\ counters' = [counters EXCEPT !.events = @ + 1]
    /\ UNCHANGED <<up, azureDevOpsAPI, currentTimer, timerStartLock, timerInterval,
                   inactivityTimer, timeEntries, isSyncingTimeEntries, globalState,
                   stops, pass, message, entryHistory, ghost, monitorVars>>

(***************************************************************************)
(* The process dies and is started again                                   *)
(***************************************************************************)
\* history: the elapsed time of a running session whose last tick is at most
\* a second old, at the moment the process ends (-1 otherwise)
ElapsedAtEnd ==
    IF /\ currentTimer # None
       /\ ~currentTimer.isPaused
       /\ LiveElapsed(now, currentTimer.startTime) - currentTimer.elapsedSeconds <= 1
    THEN LiveElapsed(now, currentTimer.startTime)
    ELSE 0 - 1

\* deactivate(), after which the extension host ends: what was waiting on a
\* prompt or a response never continues
Deactivate ==
    \* the calls in flight and the API instance end with the process
    /\ calls' = NoCalls
    /\ rateLimiter' = NewRateLimiter
    \* the view ends with the process
    /\ webviewTimer' = NoUpdate
    /\ UNCHANGED <<timerInactivityTimeout, completedWork, credited>>
    /\ up
    /\ counters.events < MaxEvents
    /\ counters' = [counters EXCEPT !.events = @ + 1]
    /\ globalState' = IF currentTimer # None
                      THEN [globalState EXCEPT !.currentTimer = currentTimer]
                      ELSE globalState
    /\ timerInterval' = FALSE
    /\ inactivityTimer' = FALSE
    /\ pomodoroBreakTimeout' = "undefined"
    /\ azureDevOpsAPI' = FALSE
    /\ up' = FALSE
    /\ stops' = [i \in StopIds |-> IF stops[i].pc = "new" THEN NewStop ELSE DoneStop]
    /\ pass' = IdlePass
    /\ isSyncingTimeEntries' = FALSE
    /\ prompts' = NoPrompts
    /\ ghost' = [ghost EXCEPT !.lost = ElapsedAtEnd]
    /\ UNCHANGED <<now, currentTimer, timerStartLock, timeEntries, message, entryHistory,
                   lastActivity, lastActivityResumeTime>>

\* the snapshots storage may hold that isValidTimerState refuses
CorruptSnapshots(saved) ==
    { [saved EXCEPT !.workItemId = 0],
      [saved EXCEPT !.elapsedSeconds = 0 - 5],
      [saved EXCEPT !.elapsedSeconds = DayCapSeconds + 1],
      [f \in DOMAIN saved \ {"isPaused"} |-> saved[f]] }

\* while the process is down the stored snapshot is one written by another
\* version or damaged on disk
Corrupt ==
    /\ UNCHANGED <<timerInactivityTimeout, remoteVars, webviewTimer>>
    /\ ~up
    /\ IsValidTimerState(globalState.currentTimer)
    /\ \E bad \in CorruptSnapshots(globalState.currentTimer) :
          globalState' = [globalState EXCEPT !.currentTimer = bad]
    /\ UNCHANGED <<now, up, azureDevOpsAPI, currentTimer, timerStartLock, timerInterval,
                   inactivityTimer, timeEntries, isSyncingTimeEntries, stops, pass,
                   message, entryHistory, ghost, counters, monitorVars>>

Crash ==
    \* the calls in flight and the API instance end with the process
    /\ calls' = NoCalls
    /\ rateLimiter' = NewRateLimiter
    \* the view ends with the process
    /\ webviewTimer' = NoUpdate
    /\ UNCHANGED <<timerInactivityTimeout, completedWork, credited>>
    /\ up
    /\ counters.events < MaxEvents
    /\ up' = FALSE
    /\ azureDevOpsAPI' = FALSE
    /\ currentTimer' = None
    /\ timerStartLock' = FALSE
    /\ timerInterval' = FALSE
    /\ inactivityTimer' = FALSE
    /\ timeEntries' = <<>>
    /\ isSyncingTimeEntries' = FALSE
    /\ stops' = [i \in StopIds |-> IF stops[i].pc = "new" THEN NewStop ELSE DoneStop]
    /\ pass' = IdlePass
    /\ message' = "none"
    /\ counters' = [counters EXCEPT !.events = @ + 1]
    /\ lastActivity' = 0
    /\ lastActivityResumeTime' = 0
    /\ pomodoroBreakTimeout' = "undefined"
    /\ prompts' = NoPrompts
    /\ ghost' = [ghost EXCEPT !.lost = ElapsedAtEnd]
    /\ UNCHANGED <<now, globalState, entryHistory>>

\* activate(): restoreTimerState(), loadTimeEntries(), checkSetup()
Activate(configured) ==
    /\ UNCHANGED <<timerInactivityTimeout, remoteVars, webviewTimer>>
    /\ ~up
    /\ up' = TRUE
    /\ azureDevOpsAPI' = configured
    \* the module's variables as a fresh process has them (lines 96-112)
    /\ lastActivity' = now
    /\ lastActivityResumeTime' = 0
    /\ pomodoroBreakTimeout' = "undefined"
    /\ prompts' = NoPrompts
    /\ LET saved == globalState.currentTimer
       IN  IF saved = None
           THEN /\ currentTimer' = None
                /\ timerInterval' = FALSE
                /\ inactivityTimer' = FALSE
                /\ UNCHANGED <<globalState, message, ghost>>
           ELSE IF ~IsValidTimerState(saved)
           THEN /\ currentTimer' = None
                /\ timerInterval' = FALSE
                /\ inactivityTimer' = FALSE
                /\ globalState' = [globalState EXCEPT !.currentTimer = None]
                /\ ghost' = NoGhost
                /\ message' = "Invalid timer state found, clearing..."
           ELSE /\ currentTimer' = RestoredTimer(saved, globalState.lastSaveTime, now)
                /\ timerInterval' = TRUE
                /\ inactivityTimer' = InactivityArmed(timerInactivityTimeout)
                /\ message' = "Restored timer"
                /\ ghost' = [ghost EXCEPT !.restored = TRUE]
                /\ UNCHANGED globalState
    /\ timeEntries' = globalState.timeEntries
    /\ UNCHANGED <<now, timerStartLock, isSyncingTimeEntries, stops, pass, entryHistory,
                   counters>>

Next ==
    \/ Advance
    \/ \E configured \in BOOLEAN : Activate(configured)
    \/ Crash
    \/ StartTimer
    \/ PauseTimer
    \/ ResumeTimer
    \/ Tick
    \/ \E i \in StopIds : StopInvoke(i)
    \/ \E i \in StopIds, answer \in {"Save", "Discard"} : StopConfirm(i, answer)
    \/ \E i \in StopIds, answer \in {"Yes", "No"} : StopUpdate(i, answer)
    \/ \E i \in StopIds, ok \in BOOLEAN : StopPushDone(i, ok)
    \/ SyncTrigger
    \/ \E ok \in BOOLEAN : PassResponse(ok)
    \/ PassWake
    \/ AdvanceCycle
    \/ AdvanceActivity
    \/ StartTimerWith(TRUE)
    \/ InactivityCheck
    \/ \E autoResume \in BOOLEAN : UpdateActivity(autoResume)
    \/ \E selection \in {"Start Break", "Continue Working"} : BreakOffer(selection)
    \/ BreakTimeout
    \/ \E answer \in {"Resume", "dismissed"} : BreakOver(answer)
    \/ Deactivate
    \/ Corrupt

Spec == Init /\ [][Next]_vars

\* the timer state machine alone: no remote connection is configured
TimerNext ==
    \/ Advance
    \/ Activate(FALSE)
    \/ Crash
    \/ StartTimer
    \/ PauseTimer
    \/ ResumeTimer
    \/ Tick
    \/ \E i \in StopIds : StopInvoke(i)
    \/ \E i \in StopIds, answer \in {"Save", "Discard"} : StopConfirm(i, answer)

TimerSpec == Init /\ [][TimerNext]_vars

\* the ledger and the sync engine: sessions are started and stopped, the
\* remote connection is configured
SyncNext ==
    \/ Advance
    \/ Activate(TRUE)
    \/ Crash
    \/ StartTimer
    \/ \E i \in StopIds : StopInvoke(i)
    \/ \E i \in StopIds, answer \in {"Save", "Discard"} : StopConfirm(i, answer)
    \/ \E i \in StopIds, answer \in {"Yes", "No"} : StopUpdate(i, answer)
    \/ \E i \in StopIds, ok \in BOOLEAN : StopPushDone(i, ok)
    \/ SyncTrigger
    \/ \E ok \in BOOLEAN : PassResponse(ok)
    \/ PassWake

SyncSpec == Init /\ [][SyncNext]_vars

\* the sync engine under its scheduling: the 5 min interval keeps firing, the
\* 500 ms sleep ends, every remote call settles (the 30 s request timeout),
\* the window is reopened after a death, and the remote accepts a call that
\* is made again and again
LiveNext ==
    \/ Activate(TRUE)
    \/ Crash
    \/ StartTimer
    \/ \E i \in StopIds : StopInvoke(i)
    \/ \E i \in StopIds, answer \in {"Save", "Discard"} : StopConfirm(i, answer)
    \/ \E i \in StopIds, answer \in {"Yes", "No"} : StopUpdate(i, answer)
    \/ \E i \in StopIds, ok \in BOOLEAN : StopPushDone(i, ok)
    \/ SyncTrigger
    \/ \E ok \in BOOLEAN : PassResponse(ok)
    \/ PassWake

LiveSpec ==
    /\ Init
    /\ [][LiveNext]_vars
    /\ WF_vars(Activate(TRUE))
    /\ WF_vars(SyncTrigger)
    /\ WF_vars(PassWake)
    /\ WF_vars(\E ok \in BOOLEAN : PassResponse(ok))
    /\ SF_vars(PassResponse(TRUE))
\* restore: the process ends in either way, storage may hold a snapshot
\* the validation refuses
RestoreNext ==
    \/ Advance
    \/ Activate(FALSE)
    \/ Crash
    \/ Deactivate
    \/ Corrupt
    \/ StartTimer
    \/ PauseTimer
    \/ ResumeTimer
    \/ Tick

RestoreSpec == Init /\ [][RestoreNext]_vars

\* the inactivity monitor next to the user's pause and resume commands
ActivityNext ==
    \/ AdvanceActivity
    \/ Activate(FALSE)
    \/ StartTimer
    \/ PauseTimer
    \/ ResumeTimer
    \/ Tick
    \/ InactivityCheck
    \/ \E autoResume \in BOOLEAN : UpdateActivity(autoResume)

ActivitySpec == Init /\ [][ActivityNext]_vars

\* Pomodoro sessions and sessions without Pomodoro: ticks along the cycle,
\* pauses and resumes, process deaths and restores, stops
PomodoroNext ==
    \/ AdvanceCycle
    \/ Activate(FALSE)
    \/ Crash
    \/ StartTimerWith(TRUE)
    \/ StartTimerWith(FALSE)
    \/ PauseTimer
    \/ ResumeTimer
    \/ Tick
    \/ \E i \in StopIds : StopInvoke(i)
    \/ \E i \in StopIds, answer \in {"Save", "Discard"} : StopConfirm(i, answer)

PomodoroSpec == Init /\ [][PomodoroNext]_vars

\* the Pomodoro break: its prompts and its timeout, next to stops and
\* shutdowns
BreakNext ==
    \/ AdvanceCycle
    \/ Activate(FALSE)
    \/ Deactivate
    \/ StartTimerWith(TRUE)
    \/ ResumeTimer
    \/ Tick
    \/ \E selection \in {"Start Break", "Continue Working"} : BreakOffer(selection)
    \/ BreakTimeout
    \/ \E answer \in {"Resume", "dismissed"} : BreakOver(answer)
    \/ \E i \in StopIds : StopInvoke(i)
    \/ \E i \in StopIds, answer \in {"Save", "Discard"} : StopConfirm(i, answer)

BreakSpec == Init /\ [][BreakNext]_vars

\* the timer and the ledger offline: no remote connection is configured, or
\* one is configured and every remote call fails
OfflineNext ==
    \/ Advance
    \/ \E configured \in BOOLEAN : Activate(configured)
    \/ StartTimer
    \/ PauseTimer
    \/ ResumeTimer
    \/ \E i \in StopIds : StopInvoke(i)
    \/ \E i \in StopIds, answer \in {"Save", "Discard"} : StopConfirm(i, answer)
    \/ \E i \in StopIds, answer \in {"Yes", "No"} : StopUpdate(i, answer)
    \/ \E i \in StopIds : StopPushDone(i, FALSE)
    \/ SyncTrigger
    \/ PassResponse(FALSE)
    \/ PassWake

OfflineSpec == Init /\ [][OfflineNext]_vars

\* the inactivity monitor under every value of its setting
SettingNext ==
    \/ AdvanceActivity
    \/ Activate(FALSE)
    \/ ChangeInactivityTimeout
    \/ StartTimer
    \/ PauseTimer
    \/ ResumeTimer
    \/ Tick
    \/ InactivityCheck
    \/ \E autoResume \in BOOLEAN : UpdateActivity(autoResume)

SettingSpec == Init /\ [][SettingNext]_vars

\* the inactivity monitor of one run with an inactivity timeout below the
\* debounce of the auto-resume
DebounceNext ==
    \/ AdvanceDebounce
    \/ Activate(FALSE)
    \/ ShortenInactivityTimeout
    \/ StartTimer
    \/ PauseTimer
    \/ ResumeTimer
    \/ Tick
    \/ InactivityCheck
    \/ \E autoResume \in BOOLEAN : UpdateActivity(autoResume)

DebounceSpec == Init /\ [][DebounceNext]_vars

\* the calls of addTimeEntry request by request: the push of a stop and the
\* sync pass against a remote that answers every request, with success or
\* with a client error, and the update also with a server error
RemoteNext ==
    \/ EarlierRun
    \/ AdvanceWork
    \/ Activate(TRUE)
    \/ StartTimer
    \/ \E i \in StopIds : StopInvoke(i)
    \/ \E i \in StopIds, answer \in {"Yes", "No"} : StopUpdate(i, answer)
    \/ SyncTrigger
    \/ PassWake
    \/ \E c \in Callers : ThrottleBegins(c)
    \/ \E c \in Callers : ThrottleEnds(c)
    \/ \E c \in Callers, status \in {200, 403} : GetResponds(c, status)
    \/ \E c \in Callers, status \in {200, 403} : CommentResponds(c, status)
    \/ \E c \in Callers, status \in {200, 403, 503} : PatchResponds(c, status)

RemoteSpec == Init /\ [][RemoteNext]_vars

\* one sync pass against a remote that answers each request in any way:
\* the retries of withRetry
RetryNext ==
    \/ EarlierRun
    \/ AdvanceWork
    \/ Activate(TRUE)
    \/ SyncTrigger
    \/ PassWake
    \/ ThrottleBegins(0)
    \/ ThrottleEnds(0)
    \/ \E status \in Statuses : GetResponds(0, status)
    \/ BackoffEnds(0)
    \/ \E status \in Statuses : CommentResponds(0, status)
    \/ \E status \in Statuses : PatchResponds(0, status)

RetrySpec == Init /\ [][RetryNext]_vars

\* the durable store under the timer's operations and the sync pass side
\* by side
StoreNext ==
    \/ EarlierRun
    \/ AdvanceWork
    \/ Activate(TRUE)
    \/ StartTimer
    \/ PauseTimer
    \/ ResumeTimer
    \/ Tick
    \/ \E i \in StopIds : StopInvoke(i)
    \/ \E i \in StopIds : StopUpdate(i, "No")
    \/ SyncTrigger
    \/ \E ok \in BOOLEAN : PassResponse(ok)
    \/ PassWake

StoreSpec == Init /\ [][StoreNext]_vars

\* the requests of addTimeEntry in time: the push of a stop and the sync
\* pass, each behind the throttle, with the clock in steps around the
\* minimum interval
ThrottleNext ==
    \/ EarlierRun
    \/ AdvanceThrottle
    \/ Activate(TRUE)
    \/ StartTimer
    \/ \E i \in StopIds : StopInvoke(i)
    \/ \E i \in StopIds : StopUpdate(i, "Yes")
    \/ SyncTrigger
    \/ PassWake
    \/ \E c \in Callers : ThrottleBegins(c)
    \/ \E c \in Callers : ThrottleEnds(c)
    \/ \E c \in Callers, status \in {200, 403} : GetResponds(c, status)
    \/ \E c \in Callers : CommentResponds(c, 200)
    \/ \E c \in Callers, status \in {200, 503} : PatchResponds(c, status)

ThrottleSpec == Init /\ [][ThrottleNext]_vars

\* the stop command under its scheduling: every prompt is answered or
\* dismissed and every remote call settles (the 30 s request timeout)
StopNext ==
    \/ Advance
    \/ Activate(TRUE)
    \/ Crash
    \/ StartTimer
    \/ \E i \in StopIds : StopInvoke(i)
    \/ \E i \in StopIds, answer \in {"Save", "Discard"} : StopConfirm(i, answer)
    \/ \E i \in StopIds, answer \in {"Yes", "No"} : StopUpdate(i, answer)
    \/ \E i \in StopIds, ok \in BOOLEAN : StopPushDone(i, ok)

StopSpec ==
    /\ Init
    /\ [][StopNext]_vars
    /\ \A i \in StopIds :
          /\ WF_vars(\E answer \in {"Save", "Discard"} : StopConfirm(i, answer))
          /\ WF_vars(\E answer \in {"Yes", "No"} : StopUpdate(i, answer))
          /\ WF_vars(\E ok \in BOOLEAN : StopPushDone(i, ok))

(***************************************************************************)
(* Claims                                                                  *)
(***************************************************************************)
HasSession == currentTimer # None

\* C1: there is one session slot and startTimer never replaces a session:
\* a start issued while a session exists (running or paused, also while a
\* stop of it waits on its prompt) changes no field of the session, of its
\* persisted snapshot or of the armed timers.
C1_StartIsNoopWhenSessionExists ==
    [][(StartTimer /\ HasSession) =>
          /\ currentTimer' = currentTimer
          /\ globalState' = globalState
          /\ timerInterval' = timerInterval
          /\ inactivityTimer' = inactivityTimer
          /\ stops' = stops]_vars

\* a start was refused while a stop of the live session waits on "Save anyway?"
C1_Witness ==
    /\ HasSession
    /\ message = "Timer already running. Stop it first."
    /\ \E i \in StopIds : stops[i].pc = "confirm"

\* C8: whenever a session exists, 0 <= elapsedSeconds <= 86400.
C8_ElapsedBounded ==
    HasSession => /\ currentTimer.elapsedSeconds >= 0
                  /\ currentTimer.elapsedSeconds <= DayCapSeconds

\* a session that ran past the cap, also after a restore
C8_Witness ==
    /\ HasSession
    /\ currentTimer.elapsedSeconds = DayCapSeconds
    /\ ghost.restored
    /\ now - ghost.wallStart > DayCapMillis

\* C9: over every step that keeps the session, elapsedSeconds does not
\* decrease, and it does not change when the session is paused before the
\* step; a restore does not go below the persisted snapshot.
C9_ElapsedMonotone ==
    [][/\ (HasSession /\ currentTimer' # None) =>
            /\ currentTimer'.elapsedSeconds >= currentTimer.elapsedSeconds
            /\ currentTimer.isPaused =>
                  currentTimer'.elapsedSeconds = currentTimer.elapsedSeconds
       /\ (~up /\ currentTimer' # None) =>
            /\ currentTimer'.elapsedSeconds >= globalState.currentTimer.elapsedSeconds
            /\ globalState.currentTimer.isPaused =>
                  currentTimer'.elapsedSeconds = globalState.currentTimer.elapsedSeconds
      ]_vars

\* a session that was paused for a while, resumed, and has ticked since
C9_Witness ==
    /\ HasSession
    /\ ~currentTimer.isPaused
    /\ ghost.pausedMs > 0
    /\ currentTimer.elapsedSeconds > 0
    /\ currentTimer.elapsedSeconds
         = (now - ghost.wallStart - ghost.pausedMs) \div MillisPerSecond

\* a step of a running process that appends one entry to the ledger
Appends ==
    /\ up
    /\ up'
    /\ Len(timeEntries') = Len(timeEntries) + 1

LastEntry(entries) == entries[Len(entries)]

\* C2: the entry saved for a session (one that was never restored) has a
\* duration equal to the wall-clock time from start to stop minus the time
\* spent paused, clamped to [0, 86400], and is created with synced = false.
C2_DurationIsWallClockMinusPaused ==
    [][(Appends /\ ~entryHistory'[Len(entryHistory')].restored) =>
          /\ LastEntry(timeEntries').duration = entryHistory'[Len(entryHistory')].expected
          /\ LastEntry(timeEntries').duration >= 0
          /\ LastEntry(timeEntries').duration <= DayCapSeconds
          /\ ~LastEntry(timeEntries').synced]_vars

\* C3: a session never has more than one entry appended for it.
C3_OneEntryPerSession == ghost.saved <= 1

\* C4: the remote add-time operation succeeds at most once for an entry.
C4_AppliedAtMostOnce ==
    \A e \in 1..Len(entryHistory) : entryHistory[e].applied <= 1

\* the entry a settling attempt is about
Attempted(e, ok) ==
    \/ PassResponse(ok) /\ e = pass.pending[pass.i]
    \/ \E i \in StopIds : StopPushDone(i, ok) /\ e = stops[i].entry

\* C6: an attempt that fails leaves its entry in the ledger with
\* synced = false and a syncError; an attempt that succeeds leaves it with
\* synced = true and no syncError.
C6_FailureIsRecordedSuccessClears ==
    [][\A e \in 1..Len(timeEntries) :
          /\ Attempted(e, FALSE) =>
                /\ Len(timeEntries') = Len(timeEntries)
                /\ ~timeEntries'[e].synced
                /\ timeEntries'[e].syncError # ""
          /\ Attempted(e, TRUE) =>
                /\ timeEntries'[e].synced
                /\ timeEntries'[e].syncError = ""]_vars

\* C10: the answer to the prompt of a stop that found less than a minute:
\* Discard clears the session and leaves the ledger as it is, Save appends
\* exactly one entry whose duration is the one the stop found.
C10_ShortSessionSaveOrDiscard ==
    [][\A i \in StopIds :
          /\ StopConfirm(i, "Discard") =>
                /\ currentTimer' = None
                /\ timeEntries' = timeEntries
                /\ globalState'.timeEntries = globalState.timeEntries
          /\ StopConfirm(i, "Save") =>
                /\ Len(timeEntries') = Len(timeEntries) + 1
                /\ SubSeq(timeEntries', 1, Len(timeEntries)) = timeEntries
                /\ LastEntry(timeEntries').duration = stops[i].duration
                /\ stops[i].duration < MinSaveSeconds]_vars

\* the running pass comes to its end
PassEnds ==
    /\ up'
    /\ pass.pc = "sleep"
    /\ pass'.pc = "idle"

\* a call of syncPendingTimeEntries was made while the ending pass ran
PassEndsAfterSecondCall == PassEnds /\ pass.skips = 1

\* C5: a call of syncPendingTimeEntries made while a pass runs changes
\* nothing of the pass and of the ledger, and the flag stays set; when the
\* pass ends, each entry that was pending at its start got at most one
\* remote call from the two calls together, and exactly one unless another
\* path marked the entry synced before the pass reached it.
C5_SecondCallReturnsAtOnce ==
    [][/\ (SyncTrigger /\ isSyncingTimeEntries) =>
             /\ pass' = [pass EXCEPT !.skips = 1]
             /\ isSyncingTimeEntries'
             /\ timeEntries' = timeEntries
             /\ entryHistory' = entryHistory
       /\ (up' /\ isSyncingTimeEntries /\ isSyncingTimeEntries') =>
             /\ pass'.pending = pass.pending
             /\ pass'.i >= pass.i
             /\ \A k \in 1..Len(pass.pending) : pass'.calls[k] >= pass.calls[k]
       /\ PassEndsAfterSecondCall =>
             \A k \in 1..Len(pass.pending) :
                /\ pass.calls[k] <= 1
                /\ pass.calls[k] = 1 \/ timeEntries[pass.pending[k]].synced
      ]_vars

\* C5 as stated: when the pass ends, each entry that was pending at its
\* start got exactly one remote call from the two calls together.
C5_ExactlyOneCallEach ==
    [][PassEndsAfterSecondCall =>
          \A k \in 1..Len(pass.pending) : pass.calls[k] = 1]_vars

\* a pass over two pending entries made its last call, and a second call of
\* syncPendingTimeEntries came and went while it ran
C5_Witness ==
    /\ up
    /\ isSyncingTimeEntries
    /\ pass.pc = "sleep"
    /\ pass.skips = 1
    /\ Len(pass.pending) = 2
    /\ pass.i = 2
    /\ \A k \in 1..2 : pass.calls[k] = 1

\* a pass takes up every entry that is unsynced when it starts
PassTakesAllUnsynced ==
    (up' /\ pass.pc = "idle" /\ pass'.pc = "call") =>
        \A e \in 1..Len(timeEntries') :
            ~timeEntries'[e].synced =>
                \E k \in 1..Len(pass'.pending) : pass'.pending[k] = e

\* the persisted ledger keeps its entries
LedgerKeepsEntries ==
    Len(globalState'.timeEntries) >= Len(globalState.timeEntries)

\* C7: an entry stays in the ledger, a pass takes up every unsynced entry
\* (also one that failed before), and with the remote connection configured
\* every unsynced entry is eventually synced.
C7_UnsyncedEventuallySynced ==
    /\ [][PassTakesAllUnsynced /\ LedgerKeepsEntries]_vars
    /\ \A e \in StopIds :
          (e <= Len(globalState.timeEntries) /\ ~globalState.timeEntries[e].synced)
             ~> (e <= Len(globalState.timeEntries) /\ globalState.timeEntries[e].synced)

\* an entry whose sync failed was synced by a later attempt
C7_Witness ==
    \E e \in 1..Len(globalState.timeEntries) :
        /\ entryHistory[e].failed
        /\ globalState.timeEntries[e].synced
        /\ globalState.timeEntries[e].syncError = ""

\* stop number i returns (or rejects) in this step of a running process
StopCompletes(i) ==
    /\ up'
    /\ stops[i].pc # "done"
    /\ stops'[i].pc = "done"

\* stop number i is waiting on a prompt or on the push
StopWaiting(i) == stops[i].pc \in {"confirm", "update", "push"}

\* C11: every stop comes to its end, whatever the answers and the outcome
\* of the push, and when it does there is no session in memory and no
\* persisted snapshot.
C11_StopEndsWithNoSession ==
    /\ [][\A i \in StopIds :
            StopCompletes(i) => /\ currentTimer' = None
                                /\ globalState'.currentTimer = None
                                /\ ~timerInterval']_vars
    /\ \A i \in StopIds : StopWaiting(i) ~> (stops[i].pc = "done")

\* a stop has ended after its push failed: the entry is kept, the session is gone
C11_Witness ==
    /\ up
    /\ \A i \in StopIds : ~StopWaiting(i)
    /\ stops[1].pc = "done"
    /\ message = "Failed to sync time entry"
    /\ Len(timeEntries) = 1
    /\ entryHistory[1].failed
    /\ currentTimer = None
    /\ globalState.currentTimer = None

\* activate() runs in this step
Activates == ~up /\ up'

\* a stored snapshot with an item id that is not positive, with
\* elapsedSeconds below 0 or above 86400, or without the flag isPaused
RefusedSnapshot(saved) ==
    /\ saved # None
    /\ \/ "isPaused" \notin DOMAIN saved
       \/ saved.workItemId <= 0
       \/ saved.elapsedSeconds < 0
       \/ saved.elapsedSeconds > DayCapSeconds

\* C12: a restore that finds a snapshot failing validation leaves no
\* session and no armed interval, and removes the snapshot from storage.
C12_InvalidSnapshotIsDropped ==
    [][(Activates /\ RefusedSnapshot(globalState.currentTimer)) =>
          /\ currentTimer' = None
          /\ ~timerInterval'
          /\ ~inactivityTimer'
          /\ globalState'.currentTimer = None]_vars

\* the process came up on a refused snapshot and is idle
C12_Witness ==
    /\ up
    /\ message = "Invalid timer state found, clearing..."
    /\ currentTimer = None
    /\ globalState.currentTimer = None
    /\ ~timerInterval

\* a snapshot restoreTimerState takes as a running session
RunningSnapshot(saved) == IsValidTimerState(saved) /\ ~saved.isPaused

\* C13: when the process ends while a session is running (its ticks on
\* schedule) and the stored snapshot is restored afterwards, the restored
\* elapsedSeconds is at most one second less than the elapsed time the
\* session had when the process ended.
C13_RestoreLosesAtMostOneTick ==
    [][(Activates /\ ghost.lost >= 0 /\ IsValidTimerState(globalState.currentTimer)) =>
          /\ HasSession'
          /\ ~currentTimer'.isPaused
          /\ currentTimer'.elapsedSeconds >= ghost.lost - 1]_vars

\* a session that had run 90 seconds when the process ended is back with
\* at least 89 seconds
C13_Witness ==
    /\ up
    /\ HasSession
    /\ ghost.restored
    /\ ~currentTimer.isPaused
    /\ ghost.pausedMs = 0
    /\ ghost.lost >= 90
    /\ currentTimer.elapsedSeconds >= ghost.lost - 1

\* C14: the restore of a valid running snapshot sets elapsedSeconds to the
\* saved value plus the whole seconds of min(now - lastSaveTime, 1 hour),
\* capped at 86400 (the saved value when there is no save marker), sets
\* startTime to now - elapsedSeconds * 1000 and arms the tick.
C14_RestoreOfRunningSnapshot ==
    [][(Activates /\ RunningSnapshot(globalState.currentTimer)) =>
          LET saved == globalState.currentTimer
              marker == globalState.lastSaveTime
              gap == IF now - marker < 3600000 THEN now - marker ELSE 3600000
              sum == saved.elapsedSeconds + (gap \div 1000)
              expected == IF marker > 0
                          THEN (IF sum > 86400 THEN 86400 ELSE sum)
                          ELSE saved.elapsedSeconds
          IN  /\ HasSession'
              /\ currentTimer'.elapsedSeconds = expected
              /\ currentTimer'.startTime = now - expected * 1000
              /\ ~currentTimer'.isPaused
              /\ timerInterval']_vars

\* a running snapshot was restored more than an hour after the last save
\* marker: one hour was added
C14_Witness ==
    /\ up
    /\ HasSession
    /\ ghost.restored
    /\ message = "Restored timer"
    /\ ~currentTimer.isPaused
    /\ timerInterval
    /\ globalState.lastSaveTime > 0
    /\ now - globalState.lastSaveTime > RestoreCapMillis
    /\ currentTimer.elapsedSeconds >= 3600
    /\ currentTimer.elapsedSeconds < DayCapSeconds
    /\ currentTimer.startTime = now - currentTimer.elapsedSeconds * MillisPerSecond

\* the session is running
Running == HasSession /\ ~currentTimer.isPaused

\* C15: while a session runs the inactivity check is armed; a check that
\* finds the session running with no activity for the timeout (300 s) or
\* longer pauses it with pausedDueToInactivity = true; the next
\* updateActivity (auto-resume enabled, no auto-resume within the last 5 s)
\* resumes a session paused that way and clears the flag.
C15_InactivityPausesActivityResumes ==
    [][/\ (up /\ Running) => inactivityTimer
       /\ (up /\ Running /\ now - lastActivity >= 300 * 1000) => ENABLED InactivityCheck
       /\ InactivityCheck =>
             /\ now - lastActivity >= 300 * 1000
             /\ HasSession'
             /\ currentTimer'.isPaused
             /\ currentTimer'.pausedDueToInactivity
             /\ currentTimer'.elapsedSeconds = LiveElapsed(now, currentTimer.startTime)
       /\ (/\ UpdateActivity(TRUE)
           /\ HasSession
           /\ currentTimer.isPaused
           /\ ghost.pausedBy = "inactivity"
           /\ now - lastActivityResumeTime >= 5000) =>
             /\ HasSession'
             /\ ~currentTimer'.isPaused
             /\ ~currentTimer'.pausedDueToInactivity
             /\ currentTimer'.elapsedSeconds = currentTimer.elapsedSeconds
             /\ timerInterval'
      ]_vars

\* a session paused by the inactivity check was resumed by updateActivity
C15_Witness ==
    /\ up
    /\ Running
    /\ message = "Timer resumed due to activity"
    /\ ~currentTimer.pausedDueToInactivity
    /\ lastActivityResumeTime = now
    /\ ghost.pausedMs >= 300 * 1000

\* C16: updateActivity leaves a session paused that was paused by the
\* user's pause command or by a Pomodoro break.
C16_ManualPauseSurvivesActivity ==
    [][\A autoResume \in BOOLEAN :
          (/\ UpdateActivity(autoResume)
           /\ HasSession
           /\ currentTimer.isPaused
           /\ ghost.pausedBy \in {"user", "break"}) =>
             /\ HasSession'
             /\ currentTimer'.isPaused]_vars

\* the work-complete notification fires in this step: it is the one place
\* that counts pomodoroCount up
NotificationFires ==
    /\ up
    /\ up'
    /\ HasSession
    /\ HasSession'
    /\ currentTimer'.pomodoroCount > currentTimer.pomodoroCount

C18_NothingArmedWithoutSession ==
    ((up /\ ~HasSession) \/ ~up) =>
        /\ ~timerInterval
        /\ ~inactivityTimer
        /\ pomodoroBreakTimeout # "armed"

\* the ledger entry that stop number i has appended, in this step or before
\* its prompt
StopEntry(i) == IF stops[i].pc \in {"update", "push"} THEN stops[i].entry
                ELSE Len(timeEntries')

\* stop number i ends in this step, and not by "No timer running" and not
\* by the answer Discard
StopSaves(i) ==
    /\ StopCompletes(i)
    /\ ~(stops[i].pc = "new" /\ ~HasSession)
    /\ ~StopConfirm(i, "Discard")

\* C19: with no remote connection, or with every remote call failing, pause
\* and resume take effect and are persisted, and a stop that ends (other
\* than by Discard) has its entry in the ledger with synced = false, has
\* saved the ledger, has cleared the session, and leaves start possible.
C19_OfflineStopKeepsEntry ==
    [][/\ (PauseTimer /\ Running) =>
             /\ HasSession'
             /\ currentTimer'.isPaused
             /\ globalState'.currentTimer = currentTimer'
       /\ (ResumeTimer /\ HasSession /\ currentTimer.isPaused) =>
             /\ Running'
             /\ globalState'.currentTimer = currentTimer'
       /\ \A i \in StopIds :
             StopSaves(i) =>
                /\ Len(timeEntries') > 0
                /\ Len(timeEntries') >= Len(timeEntries)
                /\ StopEntry(i) \in 1..Len(timeEntries')
                /\ ~timeEntries'[StopEntry(i)].synced
                /\ globalState'.timeEntries = timeEntries'
                /\ ~HasSession'
                /\ globalState'.currentTimer = None
                /\ StartAllowed'
      ]_vars

\* the ledger new keeps every entry of the ledger old at its position, with
\* the fields other than synced and syncError as they were, and with synced
\* still true where it was true
Extends(old, new) ==
    /\ Len(new) >= Len(old)
    /\ \A k \in 1..Len(old) :
          /\ new[k].id = old[k].id
          /\ new[k].workItemId = old[k].workItemId
          /\ new[k].startTime = old[k].startTime
          /\ new[k].endTime = old[k].endTime
          /\ new[k].duration = old[k].duration
          /\ old[k].synced => new[k].synced

\* C20: every step keeps the entries of the persisted ledger, in their
\* order and with their fields other than synced and syncError, and never
\* takes synced from true to false; so does every step of a running process
\* with the ledger in memory, which activate() loads from the persisted one
\* and every change of which is saved at once.
C20_LedgerOnlyGrows ==
    [][/\ Extends(globalState.timeEntries, globalState'.timeEntries)
       /\ (up /\ up') => Extends(timeEntries, timeEntries')
       /\ up' => timeEntries' = globalState'.timeEntries
      ]_vars

\* the ledger holds two entries; the first one failed once, was synced
\* later, and kept its place and its synced flag when the second was appended
C20_Witness ==
    /\ up
    /\ Len(timeEntries) = 2
    /\ timeEntries = globalState.timeEntries
    /\ timeEntries[1].synced
    /\ entryHistory[1].failed
    /\ ~timeEntries[2].synced
    /\ timeEntries[1].id # timeEntries[2].id

\* a timer command that finds no session it applies to leaves the session,
\* the snapshot and the ledger alone and shows one of its messages
NoOpWithMessage ==
    /\ currentTimer' = currentTimer
    /\ globalState' = globalState
    /\ timeEntries' = timeEntries
    /\ message' \in {"No timer running", "No active timer to pause",
                     "No paused timer to resume",
                     "Timer already running. Stop it first."}

\* C21: a pause, a resume or a stop that finds no session it applies to,
\* when it is invoked or when it continues after its prompt with the answer
\* Save, is a no-op with a message; no step of a timer command raises.
C21_NoSessionIsNoOpWithMessage ==
    [][/\ (PauseTimer /\ ~Running) => NoOpWithMessage
       /\ (ResumeTimer /\ ~(HasSession /\ currentTimer.isPaused)) => NoOpWithMessage
       /\ \A i \in StopIds :
             /\ (StopInvoke(i) /\ ~HasSession) => NoOpWithMessage
             /\ (StopConfirm(i, "Save") /\ ~HasSession) => NoOpWithMessage
       /\ up' => message' # "TypeError"
      ]_vars

\* C23: a stop that ends while the session in memory is not the one it was
\* invoked on leaves that session, its persisted snapshot and its timers
\* as they are.
C23_StopClearsOnlyItsSession ==
    [][\A i \in StopIds :
          (/\ StopCompletes(i)
           /\ StopWaiting(i)
           /\ HasSession
           /\ stops[i].session # counters.sessions) =>
             /\ currentTimer' = currentTimer
             /\ globalState'.currentTimer = globalState.currentTimer
             /\ timerInterval' = timerInterval
             /\ inactivityTimer' = inactivityTimer]_vars

\* C24: in the ledger in memory and in the persisted ledger an entry with
\* synced = true has no syncError.
C24_SyncedEntryHasNoError ==
    /\ \A e \in 1..Len(timeEntries) :
          timeEntries[e].synced => timeEntries[e].syncError = ""
    /\ \A e \in 1..Len(globalState.timeEntries) :
          globalState.timeEntries[e].synced => globalState.timeEntries[e].syncError = ""

\* C26: a restore of a running snapshot gives the session no more elapsed
\* seconds than the wall clock has gone on since the session was started.
C26_RestoreCreditsNoMoreThanWallClock ==
    [][(/\ Activates
        /\ RunningSnapshot(globalState.currentTimer)
        /\ HasSession') =>
          currentTimer'.elapsedSeconds * 1000 <= now - ghost.wallStart]_vars

\* resumeTimerCommand resumes a paused session in this step
Resumes == ResumeTimer /\ HasSession /\ currentTimer.isPaused

\* C27: after a resume the elapsed seconds that a tick or a pause computes
\* d milliseconds later are the seconds frozen at the pause plus the whole
\* seconds of d, up to the one second the pause rounded off, and up to the
\* 24 hour clamp; with d = 0 this is resume followed by pause at once.
C27_ResumeDoesNotCountPausedTime ==
    [][Resumes =>
          \A d \in {0} \cup Jumps :
             LiveElapsed(now + d, currentTimer'.startTime)
                 - ClampSeconds(currentTimer.elapsedSeconds + d \div MillisPerSecond)
               \in {0, 1}]_vars

\* a pass begins in this step
PassBegins == up /\ up' /\ pass.pc = "idle" /\ pass'.pc = "call"

\* C29: a pass takes the entries that are unsynced when it begins, in
\* ledger order, and calls the first; a failed call does not end it; it goes
\* on to the next entry of its list that is still unsynced, and when it ends
\* every entry of its list was called or has been synced by another path.
C29_PassGoesThroughItsList ==
    [][/\ PassBegins =>
             /\ pass'.pending = PendingEntries(timeEntries')
             /\ \A k \in 1..Len(pass'.pending) :
                   /\ ~timeEntries'[pass'.pending[k]].synced
                   /\ k > 1 => pass'.pending[k - 1] < pass'.pending[k]
             /\ pass'.i = 1
             /\ pass'.calls[1] = 1
       /\ PassResponse(FALSE) =>
             /\ pass'.pc = "sleep"
             /\ pass'.pending = pass.pending
             /\ pass'.i = pass.i
       /\ (PassWake /\ pass'.pc = "call") =>
             /\ pass'.i > pass.i
             /\ \A k \in (pass.i + 1)..(pass'.i - 1) : timeEntries[pass.pending[k]].synced
             /\ pass'.calls[pass'.i] = 1
       /\ PassEnds =>
             \A k \in 1..Len(pass.pending) :
                pass.calls[k] >= 1 \/ timeEntries[pass.pending[k]].synced
      ]_vars

\* C29 as stated: when a pass ends, every entry that was unsynced when it
\* began got a call from it.
C29_PassCallsEveryEntry ==
    [][PassEnds => \A k \in 1..Len(pass.pending) : pass.calls[k] >= 1]_vars

\* the call for the first entry of the list failed and the pass has called
\* the second
C29_Witness ==
    /\ up
    /\ pass.pc \in {"call", "sleep"}
    /\ Len(pass.pending) = 2
    /\ pass.i = 2
    /\ pass.calls[2] = 1
    /\ entryHistory[pass.pending[1]].failed
    /\ ~timeEntries[pass.pending[1]].synced
    /\ timeEntries[pass.pending[1]].syncError # ""

\* C28: with the setting timerInactivityTimeout at 0 or below, no
\* inactivity check is armed for a session and no check pauses a session.
C28_NoMonitorWithoutTimeout ==
    [][/\ (up /\ HasSession /\ timerInactivityTimeout <= 0) => ~inactivityTimer
       /\ timerInactivityTimeout <= 0 => ~InactivityCheck
      ]_vars

\* a status of the 4xx range
ClientError(status) == status >= 400 /\ status < 500

\* the call of caller c has ended in a failure written into its entry
FailureRecorded(c) ==
    /\ ~timeEntries'[EntryOf(c)].synced
    /\ timeEntries'[EntryOf(c)].syncError # ""
    /\ calls'[c] = NoCall
    /\ ~Active(c)'

\* C22: an entry becomes synced only in the step in which the remote
\* answers 200 to the update of the work item for that entry; an update
\* answered with a client-error status leaves the entry unsynced with a
\* syncError.
C22_SyncedOnlyAfterRemoteSuccess ==
    [][/\ \A e \in 1..Len(timeEntries) :
             (up' /\ ~timeEntries[e].synced /\ timeEntries'[e].synced) =>
                \E c \in Callers : PatchResponds(c, 200) /\ EntryOf(c) = e
       /\ \A c \in Callers, status \in {s \in Statuses : ClientError(s)} :
             (PatchResponds(c, status) /\ ~timeEntries[EntryOf(c)].synced) =>
                FailureRecorded(c)
      ]_vars

\* C25: as long as the remote has accepted at most one update for each
\* entry, the work item's CompletedWork is its first value plus the hours
\* of the accepted updates.
C25_NoUpdateIsLost ==
    (\A e \in 1..Len(entryHistory) : entryHistory[e].applied <= 1) =>
        completedWork = credited

\* C30: a request is attempted at most 4 times; a retry follows only a
\* network error, a 5xx status or a 429, after the delays 1 s, 2 s and 5 s;
\* a request answered with a 4xx status other than 429 ends the call at
\* once as a failure; so does the failure of the fourth attempt.
C30_RetryPolicy ==
    [][\A c \in Callers :
          /\ calls[c].attempt <= 3
          /\ \A status \in Statuses :
                /\ (GetResponds(c, status) /\ calls'[c].stage = "backoff") =>
                      /\ status = 0 \/ status >= 500 \/ status = 429
                      /\ calls[c].attempt < 3
                      /\ calls'[c].delay = <<1000, 2000, 5000>>[calls[c].attempt + 1]
                /\ (/\ ClientError(status)
                    /\ status # 429
                    /\ \/ GetResponds(c, status)
                       \/ CommentResponds(c, status)
                       \/ PatchResponds(c, status)) =>
                      FailureRecorded(c)
                /\ (/\ GetResponds(c, status)
                    /\ AxiosThrows(status)
                    /\ calls[c].attempt = 3) =>
                      FailureRecorded(c)
      ]_vars

(***************************************************************************)
(* The throttle                                                            *)
(***************************************************************************)
\* C31: any two requests to the remote start at least 100 ms apart: the
\* GETs of two callers that were in throttle() together, and the POST of the
\* comment and the PATCH of the update that addTimeEntry sends after its GET.
C31_RequestsAreSpaced == rateLimiter.spaced

(***************************************************************************)
(* The debounce of the auto-resume                                         *)
(***************************************************************************)
\* updateActivity resumes a paused session
AutoResumes ==
    /\ \E autoResume \in BOOLEAN : UpdateActivity(autoResume)
    /\ HasSession /\ currentTimer.isPaused
    /\ HasSession' /\ ~currentTimer'.isPaused

\* C32: two auto-resumes by updateActivity are 5 seconds apart or more, and
\* an updateActivity less than 5 seconds after the last auto-resume leaves a
\* session paused by the inactivity check as it is.
C32_AutoResumesAreDebounced ==
    [][/\ (AutoResumes /\ counters.autoResumedAt > 0) =>
             now - counters.autoResumedAt >= 5000
       /\ \A autoResume \in BOOLEAN :
             (/\ UpdateActivity(autoResume)
              /\ HasSession
              /\ currentTimer.isPaused
              /\ currentTimer.pausedDueToInactivity
              /\ counters.autoResumedAt > 0
              /\ now - counters.autoResumedAt < 5000) =>
                /\ currentTimer' = currentTimer
                /\ globalState' = globalState
                /\ timerInterval' = timerInterval
      ]_vars

\* a session that was auto-resumed and then paused again by the inactivity
\* check got an updateActivity 3 seconds after the auto-resume and is still
\* paused
C32_Witness ==
    /\ up
    /\ HasSession
    /\ currentTimer.isPaused
    /\ currentTimer.pausedDueToInactivity
    /\ counters.autoResumedAt > 0
    /\ lastActivity = now
    /\ now - counters.autoResumedAt = 3000

(***************************************************************************)
(* The Pomodoro break                                                      *)
(***************************************************************************)
\* the tick that finds the work period of a Pomodoro session completed
PomodoroCompletes ==
    /\ Tick
    /\ PomodoroDue(TickedTimer(currentTimer, now), globalState.lastPomodoroNotification)

\* C33: the completion of a Pomodoro adds exactly 1 to pomodoroCount and the
\* answer to its notification adds nothing; "Start Break" leaves the session
\* paused with one timeout armed for 300 seconds later, which does not fire
\* before and whose "Resume" leaves the session running; "Continue Working"
\* leaves the session as it is, with no timeout armed.
C33_BreakPausesAndResumes ==
    [][/\ PomodoroCompletes =>
             currentTimer'.pomodoroCount = currentTimer.pomodoroCount + 1
       /\ \A selection \in {"Start Break", "Continue Working"} :
             (BreakOffer(selection) /\ HasSession) =>
                /\ HasSession'
                /\ currentTimer'.pomodoroCount = currentTimer.pomodoroCount
       /\ BreakOffer("Start Break") =>
             /\ HasSession'
             /\ currentTimer'.isPaused
             /\ pomodoroBreakTimeout' = "armed"
             /\ prompts'.breakDue = now + 300 * 1000
       /\ BreakTimeout =>
             /\ now >= prompts.breakDue
             /\ pomodoroBreakTimeout' # "armed"
       /\ BreakOver("Resume") =>
             /\ HasSession'
             /\ ~currentTimer'.isPaused
       /\ BreakOffer("Continue Working") =>
             /\ currentTimer' = currentTimer
             /\ pomodoroBreakTimeout' # "armed"
      ]_vars

(***************************************************************************)
(* pause and resume that find nothing to do                                *)
(***************************************************************************)
\* the session, its stored snapshot and the armed timers stay as they are
SessionUntouched ==
    /\ currentTimer' = currentTimer
    /\ globalState' = globalState
    /\ timerInterval' = timerInterval
    /\ inactivityTimer' = inactivityTimer
    /\ pomodoroBreakTimeout' = pomodoroBreakTimeout

\* C34: pauseTimerCommand without a session or on a paused session, and
\* resumeTimerCommand without a session or on a running session, change
\* neither the session nor the stored snapshot nor the armed timers; a
\* second pause moves neither pausedTime nor elapsedSeconds.
C34_RefusedPauseAndResumeChangeNothing ==
    [][/\ (PauseTimer /\ (~HasSession \/ currentTimer.isPaused)) => SessionUntouched
       /\ (ResumeTimer /\ (~HasSession \/ ~currentTimer.isPaused)) => SessionUntouched
       /\ (PauseTimer /\ HasSession /\ currentTimer.isPaused) =>
             /\ currentTimer'.pausedTime = currentTimer.pausedTime
             /\ currentTimer'.elapsedSeconds = currentTimer.elapsedSeconds
      ]_vars

\* a session paused some time ago has been given a second pause
C34_Witness ==
    /\ up
    /\ HasSession
    /\ currentTimer.isPaused
    /\ message = "No active timer to pause"
    /\ now > currentTimer.pausedTime
    /\ currentTimer.elapsedSeconds > 0

(***************************************************************************)
(* lastSaveTime                                                            *)
(***************************************************************************)
\* startTimer, pauseTimerCommand, resumeTimerCommand or the tick writes the
\* session to the key currentTimer
WritesSnapshot ==
    \/ StartTimer /\ ~HasSession /\ HasSession'
    \/ PauseTimer /\ Running
    \/ ResumeTimer /\ HasSession /\ currentTimer.isPaused
    \/ Tick

\* C35: every write of the session snapshot by start, pause, resume or
\* tick sets lastSaveTime to the time of the write, and lastSaveTime changes
\* in no other step.
C35_LastSaveTimeIsLastSnapshotWrite ==
    [][/\ WritesSnapshot =>
             /\ globalState'.currentTimer = currentTimer'
             /\ globalState'.lastSaveTime = now
       /\ (globalState'.lastSaveTime # globalState.lastSaveTime) => WritesSnapshot
      ]_vars

(***************************************************************************)
(* The writers of the durable store                                        *)
(***************************************************************************)
\* an operation of the timer on a session: start, pause, resume, tick
TimerOperation == StartTimer \/ PauseTimer \/ ResumeTimer \/ Tick

\* the sync pass writes the outcome of a call into the ledger
SyncStatusUpdate == \E ok \in BOOLEAN : PassResponse(ok)

\* C36: the timer's operations write the snapshot key and no ledger key;
\* a sync-status update of the ledger writes the ledger key and no key of
\* the timer: not currentTimer, and not lastSaveTime, which pause writes.
C36_OneWriterPerKey ==
    [][/\ TimerOperation => globalState'.timeEntries = globalState.timeEntries
       /\ (PauseTimer /\ Running) => globalState'.lastSaveTime = now
       /\ SyncStatusUpdate =>
             /\ globalState'.timeEntries = timeEntries'
             /\ globalState'.currentTimer = globalState.currentTimer
             /\ globalState'.lastSaveTime = globalState.lastSaveTime
      ]_vars

(***************************************************************************)
(* The view                                                                *)
(***************************************************************************)
\* C37: every step of a running extension that changes the session (start,
\* pause, resume, tick, stop or discard, restore) posts the session as it
\* is after the step to the view, or absent when the step has cleared it.
C37_ViewHasTheSession ==
    [][(up' /\ currentTimer' # currentTimer) => webviewTimer' = currentTimer']_vars

(***************************************************************************)
(* The duration of an entry                                                *)
(***************************************************************************)
\* floor((endTime - startTime) / 1000), clamped to [0, 86400]
SpanSeconds(entry) == ClampSeconds((entry.endTime - entry.startTime) \div MillisPerSecond)

\* C38: the duration of every ledger entry is the whole seconds between its
\* startTime and its endTime, clamped to [0, 86400]; also for a session
\* stopped while paused and for an entry saved after "Save anyway?".
C38_DurationIsEndMinusStart ==
    \A k \in 1..Len(timeEntries) : timeEntries[k].duration = SpanSeconds(timeEntries[k])

(***************************************************************************)
(* The single-flight flag                                                  *)
(***************************************************************************)
\* C39: isSyncingTimeEntries is set exactly while a pass is in its loop; a
\* pass that has begun ends, with the flag cleared, whatever its calls
\* returned; and a call of syncPendingTimeEntries made when no pass runs and
\* the ledger holds an unsynced entry begins a pass.
C39_FlagFollowsThePass ==
    /\ [](up => (isSyncingTimeEntries <=> pass.pc # "idle"))
    /\ [][(/\ SyncTrigger
           /\ azureDevOpsAPI
           /\ pass.pc = "idle"
           /\ Len(PendingEntries(timeEntries)) > 0) =>
              /\ isSyncingTimeEntries'
              /\ pass'.pc = "call"
              /\ pass'.pending = PendingEntries(timeEntries)
          ]_vars
    /\ isSyncingTimeEntries ~> ~isSyncingTimeEntries

\* a pass whose call failed has ended with the flag cleared, and a later
\* call of syncPendingTimeEntries has begun a new pass over the same entry
C39_Witness ==
    /\ up
    /\ isSyncingTimeEntries
    /\ pass.pc = "call"
    /\ timeEntries[pass.pending[pass.i]].syncError = "error"
    /\ \A i \in StopIds : stops[i].pc \in {"new", "done"}

====
